---- MODULE Spec2Model ----
(***************************************************************************)
(* A model of the TERRA co-pilot backend (copilot/backend):                *)
(*   - WatchdogAgent (agents/watchdog.py): one detection pass,             *)
(*     threshold resolution, ML path and rule-based fallback;              *)
(*   - CortexAgentClient (services/cortex_agent_client.py): the streaming  *)
(*     call and its SSE frame parser;                                      *)
(*   - AgentOrchestrator._classify_intent (agents/orchestrator.py).        *)
(*                                                                         *)
(* Numbers: probabilities and thresholds are in hundredths (0.50 is 50),   *)
(* speeds and engine loads in tenths (2.0 mph is 20, 30.0 % is 300).       *)
(* A Python dict is a function whose DOMAIN is the set of keys present;    *)
(* an optional value is a set of at most one element (None is {}).         *)
(***************************************************************************)
EXTENDS Integers, Sequences, FiniteSets, TLC

\* ------------------------------------------------------------------ bounds
\* Total number of records supplied to one detection pass (the two
\* prediction feeds, the equipment snapshot and the zone metrics together).
MaxRecords == 2
\* Number of rows the threshold optimizer returns.
MaxOptimalRows == 2

\* Number of lines (a field line or a blank line) in the body the agent
\* endpoint streams.
MaxLines == 4

\* Number of tokens (words, spaces, newlines) in a message to classify.
MaxWords == 3

\* Number of rows one backend query of a chat turn returns.
MaxAnswerRows == 1

\* The longest conversation history a caller starts with, and the most
\* run_agent calls made with one history list.
MaxHistory == 2
MaxCalls == 2

\* ---------------------------------------------------------- Python helpers
\* dict.get(k, default)
Get(d, k, default) == IF k \in DOMAIN d THEN d[k] ELSE default

\* {**a, **b}
DictMerge(a, b) ==
  [k \in DOMAIN a \cup DOMAIN b |-> IF k \in DOMAIN b THEN b[k] ELSE a[k]]

\* d[k] = v on a dict
DictSet(d, k, v) == [x \in DOMAIN d \cup {k} |-> IF x = k THEN v ELSE d[x]]

EmptyDict == [x \in {} |-> 0]

None == {}
Some(x) == {x}

\* [f(x) for x in s]
MapSeq(s, F(_)) == [i \in 1..Len(s) |-> F(s[i])]

\* All sequences over S of length at most n
SeqsUpTo(S, n) == UNION {[1..k -> S] : k \in 0..n}

\* "TOKEN" in name, for a name held as its underscore-separated words
InName(word, name) == \E i \in 1..Len(name) : name[i] = word

\* ================================================================ WATCHDOG
VARIABLES
  w_pc,            \* position of WatchdogAgent.process
  sf_service,      \* self._sf_service is loaded (TRUE) or None (FALSE)
  optimal,         \* local of _get_optimal_thresholds: the optimizer's answer
  thresholds,      \* process: thresholds
  ml_ghost_cycles, \* process: ml_ghost_cycles
  ml_choke_points, \* process: ml_choke_points
  equipment_data,  \* context["equipment_data"]
  zone_metrics,    \* context["zone_metrics"]
  result,          \* the dict process returns
  fetches          \* how each backend fetch of the pass went

wvars == <<w_pc, sf_service, optimal, thresholds, ml_ghost_cycles,
           ml_choke_points, equipment_data, zone_metrics, result, fetches>>

\* The agent client (run_agent_stream).
VARIABLES
  s_pc,     \* run_agent_stream: "idle", "streaming" or "closed"
  wire,     \* the text of the response body not yet received
  buffer,   \* run_agent_stream: buffer
  yielded,  \* the events yielded so far, in order
  ending,   \* how the run ended: "success", "non_200", "exception",
            \* "no_token" ("none": not yet)
  token_file, \* /snowflake/session/token exists
  requests, \* the POST requests this run has sent
  status_code, \* response.status_code (0: no response yet)
  error_text,  \* the body of a non-200 response, as aread() returned it
  received  \* the text of the chunks aiter_text has delivered, concatenated

svars == <<s_pc, wire, buffer, yielded, ending, token_file, requests,
           status_code, error_text, received>>

\* The orchestrator's _classify_intent.
VARIABLES
  c_pc,     \* _classify_intent: "idle" or "returned"
  c_message, \* _classify_intent: message
  intent    \* _classify_intent: the value returned

cvars == <<c_pc, c_message, intent>>

\* The orchestrator's process_message (one chat turn).
VARIABLES
  o_pc,         \* process_message: "idle", "returned" or "raised"
  context_site, \* self.context["site_id"]
  site_before,  \* self.context["site_id"] when the turn began
  last_given,   \* the most recent site_id given that was not empty ("ALPHA": none yet)
  o_message,    \* process_message: message
  o_site_id,    \* process_message: site_id (None when not given)
  o_intent,     \* process_message: intent
  o_handled,    \* process_message: result, the dict the handler returned
  o_result      \* the dict process_message returns

\* Two process_message calls scheduled together on one event loop.
VARIABLES
  g_pc,     \* "idle", "scheduled" (tasks created) or "gathered" (both done)
  g_tasks,  \* per task: its message and site_id, and what its turn did
  g_order   \* the tasks in the order the loop ran them

gvars == <<g_pc, g_tasks, g_order>>

\* The agent client's run_agent and its caller's history list.
VARIABLES
  r_pc,       \* run_agent: "idle" or "called"
  r_history,  \* the caller's conversation_history list, as it is now
  r_before,   \* that list as the caller built it, before any call
  r_argument, \* the list as it was when the call running was made
  r_message,  \* run_agent: message
  r_request,  \* the messages of the request body sent
  r_calls     \* the run_agent calls made with this list

rvars == <<r_pc, r_history, r_before, r_argument, r_message, r_request, r_calls>>

\* The analytics service's execute_query.
VARIABLES
  q_pc,         \* execute_query: "idle", "try", "except" or "returned"
  is_spcs,      \* self.is_spcs
  q_session,    \* self._session is set
  q_connection, \* self._connection is set
  q_retry,      \* _execute_query_snowpark: retry, of the frame running
  q_errors,     \* the messages of the exceptions caught, one per failed attempt
  q_attempts,   \* how many times the query was handed to a session, connection or CLI
  q_reconnects, \* the outcomes of the calls of _init_connector_fallback made
  q_rows,       \* the value returned
  q_handles     \* what each attempt ran the query on

qvars == <<q_pc, is_spcs, q_session, q_connection, q_retry, q_errors,
           q_attempts, q_reconnects, q_rows, q_handles>>

\* The agent client's _parse_sse_event, frame by frame.
VARIABLES
  p_pc,      \* _parse_sse_event: "idle" or "returned"
  p_tag,     \* the event-type tag of the frame (None: no event line)
  p_payload, \* the data payload of the frame (None: no data line)
  p_frame,   \* _parse_sse_event: event_str
  p_event    \* the value returned: None or the event

pvars == <<p_pc, p_tag, p_payload, p_frame, p_event>>

tvars == <<o_pc, context_site, site_before, last_given, o_message, o_site_id, o_intent,
           o_handled, o_result>>

\* What each component leaves alone.
notWatchdog == <<svars, cvars, tvars, pvars, qvars, rvars, gvars>>
notClient == <<wvars, cvars, tvars, pvars, qvars, rvars, gvars>>
notOrchestrator == <<wvars, svars, tvars, pvars, qvars, rvars, gvars>>
notTurn == <<wvars, svars, cvars, pvars, qvars, rvars, gvars>>
notParser == <<wvars, svars, cvars, tvars, qvars, rvars, gvars>>
notQuery == <<wvars, svars, cvars, tvars, pvars, rvars, gvars>>
notRunAgent == <<wvars, svars, cvars, tvars, pvars, qvars, gvars>>
notGather == <<wvars, svars, cvars, pvars, qvars, rvars,
               o_pc, site_before, last_given, o_message, o_site_id, o_intent,
               o_handled, o_result>>

\* self.default_thresholds
default_thresholds ==
  [ghost_cycle_probability |-> 50,
   choke_point_probability |-> 60,
   ghost_cycle_speed_min   |-> 20,
   ghost_cycle_load_max    |-> 300]

\* ------------------------------------------------------------ input domains
ModelNames ==
  { <<"GHOST", "CYCLE", "DETECTOR">>,
    <<"CHOKE", "POINT", "PREDICTOR">>,
    <<"CYCLE", "TIME", "PREDICTOR">> }

\* OPTIMAL_THRESHOLD values an optimizer row may carry: 0.42, and 1.50
\* (nothing in the code restricts the column to [0,1]).
OptimalValues == {42, 150}

OptimalRows ==
  { EmptyDict }
  \cup { [MODEL_NAME |-> m] : m \in ModelNames }
  \cup { [MODEL_NAME |-> m, OPTIMAL_THRESHOLD |-> v] :
           m \in ModelNames, v \in OptimalValues }

\* What self.sf.get_optimal_thresholds() does: raises, or returns rows.
OptimizerOutcomes ==
  { [raises |-> TRUE, rows |-> <<>>] }
  \cup { [raises |-> FALSE, rows |-> r] : r \in SeqsUpTo(OptimalRows, MaxOptimalRows) }

NoOutcome == [raises |-> FALSE, rows |-> <<>>]

GhostProbabilities == {42, 50, 69, 70, 81}

GhostPredictions ==
  { [EQUIPMENT_ID |-> "EQ-1"] }
  \cup { [EQUIPMENT_ID |-> "EQ-1", GHOST_PROBABILITY |-> p] : p \in GhostProbabilities }

ChokeProbabilities == {50, 60}
ChokeSeverities == {"CRITICAL", "HIGH"}

ChokePredictions ==
  { [ZONE_NAME |-> "Z-1"] }
  \cup { [ZONE_NAME |-> "Z-1", CHOKE_PROBABILITY |-> p] : p \in ChokeProbabilities }
  \cup { [ZONE_NAME |-> "Z-1", CHOKE_PROBABILITY |-> p, PREDICTED_SEVERITY |-> s] :
           p \in ChokeProbabilities, s \in ChokeSeverities }

Speeds == {20, 30}
Loads == {200, 300}

EquipmentRecords ==
  { [equipment_id |-> "EQ-1"] }
  \cup { [equipment_id |-> "EQ-1", speed_mph |-> s] : s \in Speeds }
  \cup { [equipment_id |-> "EQ-1", engine_load_pct |-> l] : l \in Loads }
  \cup { [equipment_id |-> "EQ-1", speed_mph |-> s, engine_load_pct |-> l] :
           s \in Speeds, l \in Loads }

ZoneRecords ==
  { [zone_name |-> "Z-1"] }
  \cup { [zone_name |-> "Z-1", avg_speed |-> s, equipment_count |-> c] :
           s \in {40, 50}, c \in {10, 11} }

\* ------------------------------------------------- _get_optimal_thresholds
\* The body of the for loop over the optimizer's rows.
ThresholdStep(acc, opt) ==
  LET model == Get(opt, "MODEL_NAME", <<>>) IN
  IF InName("GHOST", model)
    THEN DictSet(acc, "ghost_cycle_probability", Get(opt, "OPTIMAL_THRESHOLD", 50))
  ELSE IF InName("CHOKE", model)
    THEN DictSet(acc, "choke_point_probability", Get(opt, "OPTIMAL_THRESHOLD", 60))
  ELSE acc

RECURSIVE ThresholdLoop(_, _, _)
ThresholdLoop(acc, rows, i) ==
  IF i > Len(rows) THEN acc
  ELSE ThresholdLoop(ThresholdStep(acc, rows[i]), rows, i + 1)

\* Mutant of _get_optimal_thresholds: the merge written the other way round,
\* {**thresholds, **self.default_thresholds}, so that the defaults win.
GetOptimalThresholds_DefaultsWin(sf, outcome) ==
  IF ~sf \/ outcome.raises THEN default_thresholds
  ELSE LET overrides == ThresholdLoop(EmptyDict, outcome.rows, 1) IN
       IF DOMAIN overrides # {} THEN DictMerge(overrides, default_thresholds)
       ELSE default_thresholds

\* sf: whether self.sf is truthy; outcome: what get_optimal_thresholds did.
_get_optimal_thresholds(sf, outcome) ==
  IF ~sf \/ outcome.raises THEN default_thresholds
  ELSE LET overrides == ThresholdLoop(EmptyDict, outcome.rows, 1) IN
       IF DOMAIN overrides # {} THEN DictMerge(default_thresholds, overrides)
       ELSE default_thresholds

\* ------------------------------------------------------- rule-based tests
\* Mutant of _is_ghost_cycle_rule_based: speed >= the minimum.
IsGhostCycleRuleBased_Inclusive(equipment) ==
  LET speed == Get(equipment, "speed_mph", 0)
      engine_load == Get(equipment, "engine_load_pct", 1000)
  IN  /\ speed >= default_thresholds["ghost_cycle_speed_min"]
      /\ engine_load < default_thresholds["ghost_cycle_load_max"]

_is_ghost_cycle_rule_based(equipment) ==
  LET speed == Get(equipment, "speed_mph", 0)
      engine_load == Get(equipment, "engine_load_pct", 1000)
  IN  /\ speed > default_thresholds["ghost_cycle_speed_min"]
      /\ engine_load < default_thresholds["ghost_cycle_load_max"]

_is_choke_point_rule_based(zone) ==
  LET avg_speed == Get(zone, "avg_speed", 1000)
      equipment_count == Get(zone, "equipment_count", 0)
  IN  avg_speed < 50 /\ equipment_count > 10

\* ------------------------------------------------------------------ alerts
\* The probability at or above which an ML ghost-cycle alert is CRITICAL.
GhostSeverity(probability) == IF probability < 70 THEN "WARNING" ELSE "CRITICAL"

MlGhostAlert(pred, thr) ==
  LET probability == Get(pred, "GHOST_PROBABILITY", 0) IN
  [type |-> "GHOST_CYCLE",
   severity |-> GhostSeverity(probability),
   id |-> Get(pred, "EQUIPMENT_ID", "None"),
   confidence |-> Some(probability),
   model |-> "GHOST_CYCLE_DETECTOR",
   threshold_used |-> Some(Get(thr, "ghost_cycle_probability", 50))]

\* Mutant of RuleGhostAlert: "confidence": 0 in place of None.
RuleGhostAlert_ZeroConfidence(equip) ==
  [type |-> "GHOST_CYCLE",
   severity |-> "WARNING",
   id |-> Get(equip, "equipment_id", "None"),
   confidence |-> Some(0),
   model |-> "RULE_BASED_FALLBACK",
   threshold_used |-> None]

RuleGhostAlert(equip) ==
  [type |-> "GHOST_CYCLE",
   severity |-> "WARNING",
   id |-> Get(equip, "equipment_id", "None"),
   confidence |-> None,
   model |-> "RULE_BASED_FALLBACK",
   threshold_used |-> None]

MlChokeAlert(pred, thr) ==
  LET probability == Get(pred, "CHOKE_PROBABILITY", 0) IN
  [type |-> "CHOKE_POINT",
   severity |-> Get(pred, "PREDICTED_SEVERITY", "MEDIUM"),
   id |-> Get(pred, "ZONE_NAME", "None"),
   confidence |-> Some(probability),
   model |-> "CHOKE_POINT_PREDICTOR",
   threshold_used |-> Some(Get(thr, "choke_point_probability", 60))]

RuleChokeAlert(zone) ==
  [type |-> "CHOKE_POINT",
   severity |-> "ALERT",
   id |-> Get(zone, "zone_name", "None"),
   confidence |-> None,
   model |-> "RULE_BASED_FALLBACK",
   threshold_used |-> None]

\* --------------------------------------------------- process, lines 74-108
\* Mutant of MlGhostPasses: probability > threshold.
MlGhostPasses_Strict(pred, thr) ==
  Get(pred, "GHOST_PROBABILITY", 0) > Get(thr, "ghost_cycle_probability", 50)

\* probability >= thresholds.get("ghost_cycle_probability", 0.5)
MlGhostPasses(pred, thr) ==
  Get(pred, "GHOST_PROBABILITY", 0) >= Get(thr, "ghost_cycle_probability", 50)

\* Mutant of GhostBranch: the fallback also runs when the feed is non-empty
\* but none of its records reaches the threshold.
GhostBranch_FallbackWhenNoneKept(ml, equipment, thr) ==
  LET kept == SelectSeq(ml, LAMBDA pred : MlGhostPasses(pred, thr)) IN
  IF Len(kept) > 0
    THEN [ghost_cycles |-> kept,
          alerts |-> MapSeq(kept, LAMBDA pred : MlGhostAlert(pred, thr))]
    ELSE LET hit == SelectSeq(equipment, _is_ghost_cycle_rule_based) IN
         [ghost_cycles |-> hit,
          alerts |-> MapSeq(hit, RuleGhostAlert)]

\* A ghost-cycle branch that lists every feed record as a ghost cycle and
\* alerts only for those at or above the threshold.
GhostBranch_ListsWholeFeed(ml, equipment, thr) ==
  IF Len(ml) > 0
    THEN LET kept == SelectSeq(ml, LAMBDA pred : MlGhostPasses(pred, thr)) IN
         [ghost_cycles |-> ml,
          alerts |-> MapSeq(kept, LAMBDA pred : MlGhostAlert(pred, thr))]
    ELSE LET kept == SelectSeq(equipment, _is_ghost_cycle_rule_based) IN
         [ghost_cycles |-> kept,
          alerts |-> MapSeq(kept, RuleGhostAlert)]

\* The ghost-cycle branch: what it appends to ghost_cycles and to alerts.
GhostBranch(ml, equipment, thr) ==
  IF Len(ml) > 0
    THEN LET kept == SelectSeq(ml, LAMBDA pred : MlGhostPasses(pred, thr)) IN
         [ghost_cycles |-> kept,
          alerts |-> MapSeq(kept, LAMBDA pred : MlGhostAlert(pred, thr))]
    ELSE LET kept == SelectSeq(equipment, _is_ghost_cycle_rule_based) IN
         [ghost_cycles |-> kept,
          alerts |-> MapSeq(kept, RuleGhostAlert)]

\* -------------------------------------------------- process, lines 110-145
\* probability >= thresholds.get("choke_point_probability", 0.6)
MlChokePasses(pred, thr) ==
  Get(pred, "CHOKE_PROBABILITY", 0) >= Get(thr, "choke_point_probability", 60)

\* A choke-point branch without the rule-based fallback.
ChokeBranch_NoFallback(ml, zones, thr) ==
  LET kept == SelectSeq(ml, LAMBDA pred : MlChokePasses(pred, thr)) IN
  [choke_points |-> kept,
   alerts |-> MapSeq(kept, LAMBDA pred : MlChokeAlert(pred, thr))]

\* The choke-point branch: what it appends to choke_points and to alerts.
ChokeBranch(ml, zones, thr) ==
  IF Len(ml) > 0
    THEN LET kept == SelectSeq(ml, LAMBDA pred : MlChokePasses(pred, thr)) IN
         [choke_points |-> kept,
          alerts |-> MapSeq(kept, LAMBDA pred : MlChokeAlert(pred, thr))]
    ELSE LET kept == SelectSeq(zones, _is_choke_point_rule_based) IN
         [choke_points |-> kept,
          alerts |-> MapSeq(kept, RuleChokeAlert)]

\* -------------------------------------------------- process, lines 151-164
\* A status that reports ALERT as soon as there is an alert.
OverallStatus_AlertFirst(alerts) ==
  IF Len(alerts) > 0 THEN "ALERT"
  ELSE IF \E i \in 1..Len(alerts) : alerts[i].severity = "CRITICAL" THEN "CRITICAL"
  ELSE "NORMAL"

\* Line 155: "CRITICAL" if any(...) else "ALERT" if alerts else "NORMAL"
OverallStatus(alerts) ==
  IF \E i \in 1..Len(alerts) : alerts[i].severity = "CRITICAL" THEN "CRITICAL"
  ELSE IF Len(alerts) > 0 THEN "ALERT"
  ELSE "NORMAL"

\* The dict process returns (the message, cost and recommendation texts of
\* an alert and the summary string are left out).
ProcessResult(mlg, mlc, equipment, zones, thr) ==
  LET ghost == GhostBranch(mlg, equipment, thr)
      choke == ChokeBranch(mlc, zones, thr)
      alerts == ghost.alerts \o choke.alerts
  IN
  [alerts |-> alerts,
   ghost_cycles |-> ghost.ghost_cycles,
   choke_points |-> choke.choke_points,
   status |-> OverallStatus(alerts),
   thresholds_used |-> thr,
   cost_impact |->
     [ghost_cycle_count |-> Len(ghost.ghost_cycles),
      choke_point_count |-> Len(choke.choke_points)]]

NoResult ==
  [alerts |-> <<>>, ghost_cycles |-> <<>>, choke_points |-> <<>>,
   status |-> "NORMAL", thresholds_used |-> default_thresholds,
   cost_impact |-> [ghost_cycle_count |-> 0, choke_point_count |-> 0]]

\* ----------------------------------------------------------------- actions
\* The sf property (lines 39-48) over the three places process reads it:
\* a service that is loaded stays loaded; one that is not is loaded at the
\* access, or the load fails and the property returns None.
SfAccesses(a1, a2, a3) ==
  /\ sf_service => a1
  /\ a1 => a2
  /\ a2 => a3

\* What one prediction fetch returns (lines 184-211, 213-241): [] when the
\* service is missing or execute_query raises, else the rows.
FetchPredictions(sf, raises, rows) == IF sf /\ ~raises THEN rows ELSE <<>>

\* What the fetch can be answered with: a raise (no rows), or rows.
FeedAnswers(sf, Rows, n) ==
  IF sf THEN { [raises |-> TRUE, rows |-> <<>>] }
             \cup { [raises |-> FALSE, rows |-> r] : r \in SeqsUpTo(Rows, n) }
        ELSE { [raises |-> FALSE, rows |-> <<>>] }

\* How a fetch went: the service was not there (self.sf is None), the call
\* inside the try raised, or it answered.
FetchStatus(sf, raises) ==
  IF ~sf THEN "unavailable" ELSE IF raises THEN "raised" ELSE "ok"

NoFetches == [thresholds |-> "ok", ghost |-> "ok", choke |-> "ok"]

\* The thresholds _get_optimal_thresholds can return, by service state, each
\* with how the optimizer fetch went.
ResolvableThresholds(sf) ==
  { [thresholds |-> _get_optimal_thresholds(sf, o), status |-> FetchStatus(sf, o.raises)] :
      o \in (IF sf THEN OptimizerOutcomes ELSE {NoOutcome}) }

\* One call of process (lines 50-164). None of the coroutines it awaits
\* suspends (they call the synchronous service), so the call is one step.
Process ==
  /\ w_pc = "idle"
  /\ \E a1, a2, a3 \in BOOLEAN :
       /\ SfAccesses(a1, a2, a3)
       /\ \E thr \in ResolvableThresholds(a1) :
          \E eq \in SeqsUpTo(EquipmentRecords, MaxRecords) :
          \E zm \in SeqsUpTo(ZoneRecords, MaxRecords - Len(eq)) :
          \E g \in FeedAnswers(a2, GhostPredictions, MaxRecords - Len(eq) - Len(zm)) :
          \E c \in FeedAnswers(a3, ChokePredictions,
                               MaxRecords - Len(eq) - Len(zm) - Len(g.rows)) :
            /\ equipment_data' = eq
            /\ zone_metrics' = zm
            /\ sf_service' = a3
            /\ thresholds' = thr.thresholds
            /\ fetches' = [thresholds |-> thr.status,
                           ghost |-> FetchStatus(a2, g.raises),
                           choke |-> FetchStatus(a3, c.raises)]
            /\ ml_ghost_cycles' = FetchPredictions(a2, g.raises, g.rows)
            /\ ml_choke_points' = FetchPredictions(a3, c.raises, c.rows)
            /\ result' = ProcessResult(ml_ghost_cycles', ml_choke_points',
                                       eq, zm, thresholds')
  /\ w_pc' = "returned"
  /\ UNCHANGED <<optimal, notWatchdog>>

\* The caller has taken the result; the agent (and its loaded service)
\* stays for the next pass.
ProcessReturn ==
  /\ w_pc \in {"returned", "thresholds"}
  /\ w_pc' = "idle"
  /\ optimal' = NoOutcome
  /\ thresholds' = default_thresholds
  /\ ml_ghost_cycles' = <<>>
  /\ ml_choke_points' = <<>>
  /\ equipment_data' = <<>>
  /\ zone_metrics' = <<>>
  /\ result' = NoResult
  /\ fetches' = NoFetches
  /\ UNCHANGED <<sf_service, notWatchdog>>

WNext ==
  \/ Process
  \/ ProcessReturn


\* ------------------------------------------- _get_optimal_thresholds alone
\* One call of _get_optimal_thresholds (lines 166-182); optimal keeps the
\* optimizer's answer beside the thresholds returned for it.
GetOptimalThresholds ==
  /\ w_pc = "idle"
  /\ \E a1 \in BOOLEAN :
       /\ sf_service => a1
       /\ \E outcome \in (IF a1 THEN OptimizerOutcomes ELSE {NoOutcome}) :
            /\ sf_service' = a1
            /\ optimal' = outcome
            /\ thresholds' = _get_optimal_thresholds(a1, outcome)
            /\ fetches' = [NoFetches EXCEPT !.thresholds = FetchStatus(a1, outcome.raises)]
  /\ w_pc' = "thresholds"
  /\ UNCHANGED <<ml_ghost_cycles, ml_choke_points, equipment_data, zone_metrics, result, notWatchdog>>

TNext ==
  \/ GetOptimalThresholds
  \/ ProcessReturn


\* ============================================================ SSE PARSER
\* Text is a sequence of tokens, each a non-empty piece of the text: the
\* newline, the field names "event:" and "data:", a space, an event-type
\* tag, or a data payload. No token but NL holds a newline and no
\* concatenation of two or more tokens is valid JSON.
NL == "\n"
SP == " "

IsSpace(tok) == tok \in {NL, SP}

\* str.lstrip / str.rstrip / str.strip on a token sequence
RECURSIVE LStrip(_)
LStrip(s) == IF s # <<>> /\ IsSpace(Head(s)) THEN LStrip(Tail(s)) ELSE s

RECURSIVE RStrip(_)
RStrip(s) ==
  IF s # <<>> /\ IsSpace(s[Len(s)]) THEN RStrip(SubSeq(s, 1, Len(s) - 1)) ELSE s

Strip(s) == RStrip(LStrip(s))

\* The index of the first NL of s, 0 when there is none.
FirstNL(s) ==
  IF \E i \in 1..Len(s) : s[i] = NL
    THEN CHOOSE i \in 1..Len(s) : s[i] = NL /\ \A j \in 1..(i - 1) : s[j] # NL
    ELSE 0

\* s.split("\n")
RECURSIVE SplitLines(_)
SplitLines(s) ==
  IF FirstNL(s) = 0 THEN << s >>
  ELSE << SubSeq(s, 1, FirstNL(s) - 1) >>
         \o SplitLines(SubSeq(s, FirstNL(s) + 1, Len(s)))

\* line.startswith(field)
StartsWith(line, field) == Len(line) > 0 /\ line[1] = field

\* JSON values, tagged by type.
JStr(x)  == [t |-> "str",  v |-> x]
JNum(x)  == [t |-> "num",  v |-> x]
JList(x) == [t |-> "list", v |-> x]
JDict(x) == [t |-> "dict", v |-> x]
JNull    == [t |-> "null", v |-> 0]

\* Python truthiness of a JSON value
Truthy(j) ==
  CASE j.t = "str"  -> j.v # ""
    [] j.t = "num"  -> j.v # 0
    [] j.t = "list" -> Len(j.v) > 0
    [] j.t = "dict" -> DOMAIN j.v # {}
    [] OTHER        -> FALSE

\* json.loads of one payload token: the value, or {} on JSONDecodeError.
JsonLoadsToken(tok) ==
  CASE tok = "{\"text\":\"abc\"}" -> Some(JDict([text |-> JStr("abc")]))
    [] tok = "{\"text\":\"\"}"    -> Some(JDict([text |-> JStr("")]))
    [] tok = "{}"                 -> Some(JDict(EmptyDict))
    [] tok = "null"               -> Some(JNull)
    [] tok = "[1]"                -> Some(JList(<< JNum(1) >>))
    [] tok = "\"hi\""             -> Some(JStr("hi"))
    [] tok = "\"\""               -> Some(JStr(""))
    [] tok = "7"                  -> Some(JNum(7))
    [] tok = "{\"status\":\"planning\"}" ->
         Some(JDict([status |-> JStr("planning")]))
    [] tok = "{\"status\":\"custom\",\"message\":\"Working\"}" ->
         Some(JDict([status |-> JStr("custom"), message |-> JStr("Working")]))
    [] tok = "{\"content\":[{\"json\":{\"sql\":\"SELECT 1\"}}]}" ->
         Some(JDict([content |->
           JList(<< JDict([json |-> JDict([sql |-> JStr("SELECT 1")])]) >>)]))
    [] tok = "{\"content\":[{\"json\":{\"error\":{\"message\":\"bad\"}}}]}" ->
         Some(JDict([content |->
           JList(<< JDict([json |->
             JDict([error |-> JDict([message |-> JStr("bad")])])]) >>)]))
    [] tok = "{\"content\":[{\"json\":{\"error\":\"bad\"}}]}" ->
         Some(JDict([content |->
           JList(<< JDict([json |-> JDict([error |-> JStr("bad")])]) >>)]))
    [] tok = "{\"content\":[{\"json\":{\"data\":[1]}}]}" ->
         Some(JDict([content |->
           JList(<< JDict([json |-> JDict([data |-> JList(<< JNum(1) >>)])]) >>)]))
    [] tok = "{\"content\":[{\"text\":\"note\"}]}" ->
         Some(JDict([content |-> JList(<< JDict([text |-> JStr("note")]) >>)]))
    [] tok = "{\"content\":[{\"text\":\"\"}]}" ->
         Some(JDict([content |-> JList(<< JDict([text |-> JStr("")]) >>)]))
    [] tok = "{\"content\":[]}" ->
         Some(JDict([content |-> JList(<< >>)]))
    [] tok = "{\"chart_spec\":{\"mark\":\"bar\"}}" ->
         Some(JDict([chart_spec |-> JDict([mark |-> JStr("bar")])]))
    [] tok = "{\"chart_spec\":\"{\\\"mark\\\":\\\"bar\\\"}\"}" ->
         Some(JDict([chart_spec |-> JStr("{\"mark\":\"bar\"}")]))
    [] tok = "{\"chart_spec\":\"{oops\"}" ->
         Some(JDict([chart_spec |-> JStr("{oops")]))
    [] OTHER -> None

\* json.loads of the chart_spec string
JsonLoadsChart(str) ==
  IF str = "{\"mark\":\"bar\"}" THEN Some(JDict([mark |-> JStr("bar")])) ELSE None

\* json.loads(data_str): the empty string and a run of several tokens are
\* not JSON.
JsonLoads(data_str) ==
  IF Len(data_str) = 1 THEN JsonLoadsToken(data_str[1]) ELSE None

\* data.get(key, default) on a JSON object
JGet(data, key, default) == IF key \in DOMAIN data.v THEN data.v[key] ELSE default

\* Lines 190-200: the loop over the lines of the frame. The accumulator
\* holds event_type and data (None or a value) and the event returned
\* from inside the loop.
ParseLine(acc, line) ==
  IF acc.returned # None THEN acc
  ELSE IF StartsWith(line, "event:")
    THEN [acc EXCEPT !.event_type = Some(Strip(Tail(line)))]
  ELSE IF StartsWith(line, "data:")
    THEN LET data_str == Strip(Tail(line)) IN
         IF data_str = << "[DONE]" >>
           THEN [acc EXCEPT !.returned = Some([type |-> "done"])]
         ELSE IF JsonLoads(data_str) # None
           THEN LET j == CHOOSE x \in JsonLoads(data_str) : TRUE IN
                [acc EXCEPT !.data = IF j.t = "null" THEN None ELSE Some(j)]
           ELSE [acc EXCEPT !.data = Some(JDict([raw |-> [t |-> "raw", v |-> data_str]]))]
  ELSE acc

RECURSIVE ParseLines(_, _, _)
ParseLines(acc, lines, i) ==
  IF i > Len(lines) THEN acc
  ELSE ParseLines(ParseLine(acc, lines[i]), lines, i + 1)

\* status_titles (lines 238-244)
StatusTitles ==
  [planning |-> "Planning analysis approach",
   reasoning_agent_start |-> "Starting analysis",
   reasoning_agent_stop |-> "Analysis complete",
   reevaluating_plan |-> "Refining approach",
   streaming_analyst_results |-> "Running SQL query"]

\* message or status
OrStr(a, b) == IF Truthy(a) THEN a ELSE b

\* Lines 266-286: the tool-result fields found in one content item; raised
\* is set when json_data["error"] is not a dict (str has no .get).
ToolItem(res, item) ==
  IF res.raised \/ item.t # "dict" THEN res
  ELSE
    LET withJson ==
          IF "json" \in DOMAIN item.v
            THEN LET jd == item.v["json"] IN
                 LET r1 == IF "sql" \in DOMAIN jd.v
                             THEN [res EXCEPT !.fields = DictSet(@, "sql", jd.v["sql"])]
                             ELSE res
                     r2 == IF "error" \in DOMAIN jd.v
                             THEN IF jd.v["error"].t = "dict"
                                    THEN [r1 EXCEPT !.fields =
                                           DictSet(@, "error",
                                             JGet(jd.v["error"], "message",
                                                  [t |-> "strof", v |-> jd.v["error"]]))]
                                    ELSE [r1 EXCEPT !.raised = TRUE]
                             ELSE r1
                     r3 == IF ~r2.raised /\ "data" \in DOMAIN jd.v
                             THEN [r2 EXCEPT !.fields = DictSet(@, "data", jd.v["data"])]
                             ELSE r2
                 IN r3
            ELSE res
    IN IF ~withJson.raised /\ "text" \in DOMAIN item.v
         THEN [withJson EXCEPT !.fields = DictSet(@, "content", item.v["text"])]
         ELSE withJson

RECURSIVE ToolItems(_, _, _)
ToolItems(res, items, i) ==
  IF i > Len(items) THEN res
  ELSE ToolItems(ToolItem(res, items[i]), items, i + 1)

\* Lines 318-322: [c.get("text", "") for c in content if isinstance(c, dict)]
ContentTexts(content) ==
  LET dicts == SelectSeq(content, LAMBDA c : c.t = "dict") IN
  [i \in 1..Len(dicts) |-> JGet(dicts[i], "text", JStr(""))]

\* Lines 208-327: the event for (event_type, data); None is {}.
Dispatch(event_type, data) ==
  IF data.t # "dict" THEN Some([type |-> "text", content |-> [t |-> "strof", v |-> data]])
  ELSE IF event_type \in {Some(<< "response.output_text.delta" >>),
                          Some(<< "response.text.delta" >>)}
    THEN LET text == JGet(data, "text", JStr("")) IN
         IF Truthy(text) THEN Some([type |-> "text", content |-> text]) ELSE None
  ELSE IF event_type = Some(<< "response.thinking.delta" >>)
    THEN LET text == JGet(data, "text", JStr("")) IN
         IF Truthy(text)
           THEN Some([type |-> "thinking", title |-> JStr("Reasoning"), content |-> text])
           ELSE None
  ELSE IF event_type = Some(<< "response.status" >>)
    THEN LET status == JGet(data, "status", JStr(""))
             message == JGet(data, "message", JStr(""))
             title == IF status.t = "str" /\ status.v \in DOMAIN StatusTitles
                        THEN JStr(StatusTitles[status.v])
                        ELSE OrStr(message, status)
         IN IF Truthy(title)
              THEN Some([type |-> "status", title |-> title, status |-> status])
              ELSE None
  ELSE IF event_type = Some(<< "response.tool_result.status" >>)
    THEN LET status == JGet(data, "status", JStr(""))
             message == JGet(data, "message", JStr(""))
         IN Some([type |-> "tool_status", title |-> OrStr(message, status),
                  status |-> status])
  ELSE IF event_type = Some(<< "response.tool_result" >>)
    THEN LET content == JGet(data, "content", JList(<< >>))
             res == IF content.t = "list"
                      THEN ToolItems([fields |-> EmptyDict, raised |-> FALSE], content.v, 1)
                      ELSE [fields |-> EmptyDict, raised |-> FALSE]
         IN IF ~res.raised /\ DOMAIN res.fields # {}
              THEN Some([type |-> "tool_result", fields |-> res.fields])
              ELSE None
  ELSE IF event_type = Some(<< "response.chart" >>)
    THEN LET chart_spec == JGet(data, "chart_spec", JDict(EmptyDict)) IN
         IF chart_spec.t = "str"
           THEN IF JsonLoadsChart(chart_spec.v) = None THEN None
                ELSE LET parsed == CHOOSE x \in JsonLoadsChart(chart_spec.v) : TRUE IN
                     IF Truthy(parsed) /\ parsed.t = "dict"
                       THEN Some([type |-> "chart", chart_spec |-> parsed]) ELSE None
           ELSE IF Truthy(chart_spec) /\ chart_spec.t = "dict"
                  THEN Some([type |-> "chart", chart_spec |-> chart_spec]) ELSE None
  ELSE IF event_type = Some(<< "response.done" >>)
    THEN Some([type |-> "done"])
  ELSE IF event_type = Some(<< "response.content.delta" >>)
    THEN LET text == JGet(data, "text", JStr("")) IN
         IF Truthy(text) THEN Some([type |-> "text", content |-> text])
         ELSE LET content == JGet(data, "content", JList(<< >>)) IN
              IF content.t = "list" /\ Len(ContentTexts(content.v)) > 0
                THEN Some([type |-> "text",
                           content |-> [t |-> "join", v |-> ContentTexts(content.v)]])
                ELSE None
  ELSE None

\* _parse_sse_event(event_str): {} for None, else the one event.
_parse_sse_event(event_str) ==
  LET lines == SplitLines(Strip(event_str))
      acc == ParseLines([event_type |-> None, data |-> None, returned |-> None],
                        lines, 1)
  IN  IF acc.returned # None THEN acc.returned
      ELSE IF acc.data = None THEN None
      ELSE Dispatch(acc.event_type, CHOOSE d \in acc.data : TRUE)

\* ---------------------------------------------------------- one frame
\* The event-type tags the parser tests for (lines 211-313), and one it
\* does not.
RecognizedTags ==
  {"response.output_text.delta", "response.text.delta", "response.thinking.delta",
   "response.status", "response.tool_result.status", "response.tool_result",
   "response.chart", "response.done", "response.content.delta"}
FrameTags == RecognizedTags \cup {"response.unknown"}

\* The data payloads: JSON objects, an array, strings, a number, null, text
\* that is not JSON, and the done sentinel.
JsonPayloads ==
  {"{\"text\":\"abc\"}", "{\"text\":\"\"}", "{}", "null", "[1]", "\"hi\"", "\"\"", "7",
   "{\"status\":\"planning\"}", "{\"status\":\"custom\",\"message\":\"Working\"}",
   "{\"content\":[{\"json\":{\"sql\":\"SELECT 1\"}}]}",
   "{\"content\":[{\"json\":{\"error\":{\"message\":\"bad\"}}}]}",
   "{\"content\":[{\"json\":{\"error\":\"bad\"}}]}",
   "{\"content\":[{\"json\":{\"data\":[1]}}]}",
   "{\"content\":[{\"text\":\"note\"}]}", "{\"content\":[{\"text\":\"\"}]}",
   "{\"content\":[]}", "{\"chart_spec\":{\"mark\":\"bar\"}}",
   "{\"chart_spec\":\"{\\\"mark\\\":\\\"bar\\\"}\"}", "{\"chart_spec\":\"{oops\"}"}
FramePayloads == JsonPayloads \cup {"{oops", "[DONE]"}

\* The text of a frame: an event line and a data line, either of which
\* may be missing.
FrameText(tag, payload) ==
  (IF tag = None THEN << >> ELSE <<"event:", SP, CHOOSE t \in tag : TRUE>>)
  \o (IF tag # None /\ payload # None THEN << NL >> ELSE << >>)
  \o (IF payload = None THEN << >> ELSE <<"data:", SP, CHOOSE p \in payload : TRUE>>)

\* A caller hands one frame to _parse_sse_event and gets its value.
ParseFrame ==
  /\ p_pc = "idle"
  /\ \E tag \in {None} \cup {Some(t) : t \in FrameTags},
        payload \in {None} \cup {Some(p) : p \in FramePayloads} :
       /\ p_tag' = tag
       /\ p_payload' = payload
       /\ p_frame' = FrameText(tag, payload)
       /\ p_event' = _parse_sse_event(FrameText(tag, payload))
  /\ p_pc' = "returned"
  /\ UNCHANGED notParser

\* The caller takes the value; the parser keeps no state between frames.
ParseReturn ==
  /\ p_pc = "returned"
  /\ p_pc' = "idle"
  /\ p_tag' = None
  /\ p_payload' = None
  /\ p_frame' = << >>
  /\ p_event' = None
  /\ UNCHANGED notParser

PNext == ParseFrame \/ ParseReturn

\* ========================================================== AGENT CLIENT
\* The lines a response body is made of.
StreamTags == {"response.output_text.delta", "response.done"}
StreamPayloads == {"{\"text\":\"abc\"}", "[DONE]"}

StreamLines ==
  { <<"event:", t, NL>> : t \in StreamTags }
  \cup { <<"data:", p, NL>> : p \in StreamPayloads }
  \cup { <<NL>> }

RECURSIVE Flatten(_)
Flatten(ss) == IF ss = <<>> THEN <<>> ELSE Head(ss) \o Flatten(Tail(ss))

\* The bodies: up to MaxLines lines, the last one with or without its newline.
Streams ==
  LET whole == { Flatten(ls) : ls \in SeqsUpTo(StreamLines, MaxLines) } IN
  whole \cup { SubSeq(w, 1, Len(w) - 1) : w \in whole \ {<<>>} }

\* The index of the first "\n\n" of b, 0 when there is none.
FirstBlank(b) ==
  LET at == {i \in 1..(Len(b) - 1) : b[i] = NL /\ b[i + 1] = NL} IN
  IF at = {} THEN 0 ELSE CHOOSE i \in at : \A j \in at : i <= j

\* if event: yield event
YieldIf(event) == IF event # None THEN << CHOOSE e \in event : TRUE >> ELSE << >>

\* A loop that forgets a buffer holding no complete frame.
RECURSIVE DrainBuffer_DropsPartial(_)
DrainBuffer_DropsPartial(b) ==
  IF FirstBlank(b) = 0 THEN [buffer |-> << >>, events |-> << >>]
  ELSE LET event_str == SubSeq(b, 1, FirstBlank(b) - 1)
           rest == DrainBuffer_DropsPartial(SubSeq(b, FirstBlank(b) + 2, Len(b)))
       IN [buffer |-> rest.buffer,
           events |-> YieldIf(_parse_sse_event(event_str)) \o rest.events]

\* Lines 151-157: the while loop; what is left of the buffer and the events
\* yielded on the way.
RECURSIVE DrainBuffer(_)
DrainBuffer(b) ==
  IF FirstBlank(b) = 0 THEN [buffer |-> b, events |-> << >>]
  ELSE LET event_str == SubSeq(b, 1, FirstBlank(b) - 1)
           rest == DrainBuffer(SubSeq(b, FirstBlank(b) + 2, Len(b)))
       IN [buffer |-> rest.buffer,
           events |-> YieldIf(_parse_sse_event(event_str)) \o rest.events]

\* An end of stream that drops what is left in the buffer.
FlushBuffer_Dropped(b) == << >>

\* Lines 159-163: the remaining buffer at the end of the stream.
FlushBuffer(b) == IF Strip(b) # << >> THEN YieldIf(_parse_sse_event(b)) ELSE << >>

\* A generator that ends after the flush without a closing event.
OnCompletion_NothingYielded(out) == out

\* Line 165: yield {"type": "done"}
OnCompletion(out) == Append(out, [type |-> "done"])

\* Lines 167-172: the except clause.
OnException(out) == Append(out, [type |-> "error", content |-> "exception"])

\* The statuses and bodies of a response that is not a success; a body may
\* itself look like a frame of the event stream.
ErrorStatuses == {401, 500}
ErrorBodies == { << >>, <<"Unauthorized">>, <<"data:", "[DONE]", NL, NL>> }

\* A non-200 branch that also hands the body to the parser.
OnErrorStatus_ParsesBody(out, status, body) ==
  Append(out, [type |-> "error", content |-> <<"Agent API error: ", status>>,
               details |-> body])
    \o FlushBuffer(body)

\* Lines 135-143: the non-200 response. content is
\* f"Agent API error: {response.status_code}", details the decoded body
\* ("" when it is empty).
OnErrorStatus(out, status, body) ==
  Append(out, [type |-> "error", content |-> <<"Agent API error: ", status>>,
               details |-> body])

\* A _get_token that answers an empty token when the file is absent.
GetToken_EmptyWhenAbsent(exists) == Some(IF exists THEN "token" ELSE "")

\* Lines 36-42: _get_token; None stands for the RuntimeError raised.
GetToken(exists) == IF exists THEN Some("token") ELSE None

\* Lines 167-172 after _get_token raised: str(e) is its message.
OnMissingToken(out) ==
  Append(out, [type |-> "error",
               content |-> "No SPCS token available - not running in SPCS?"])

\* Lines 101-102, 167-172: _get_token raises at the first statement of
\* the try; the except clause yields the error and the generator ends.
CallWithoutToken ==
  /\ s_pc = "idle"
  /\ GetToken(token_file) = None
  /\ yielded' = OnMissingToken(yielded)
  /\ s_pc' = "closed"
  /\ ending' = "no_token"
  /\ UNCHANGED <<wire, buffer, token_file, requests, status_code, error_text,
                 received, notClient>>

\* Lines 103-134 raise: SNOWFLAKE_HOST is unset (_get_base_url, nothing
\* sent), or the request is sent and fails before a response.
CallRaises ==
  /\ s_pc = "idle"
  /\ GetToken(token_file) # None
  /\ \E sent \in {0, 1} : requests' = requests + sent
  /\ yielded' = OnException(yielded)
  /\ s_pc' = "closed"
  /\ ending' = "exception"
  /\ UNCHANGED <<wire, buffer, token_file, status_code, error_text, received,
                 notClient>>

\* Lines 135-143: the response has a non-200 status; aread() returns the
\* body, or raises and the except clause yields the error.
CallNon200 ==
  /\ s_pc = "idle"
  /\ GetToken(token_file) # None
  /\ requests' = requests + 1
  /\ \E status \in ErrorStatuses, body \in ErrorBodies :
       /\ status_code' = status
       /\ \/ /\ error_text' = body
             /\ yielded' = OnErrorStatus(yielded, status, body)
             /\ ending' = "non_200"
          \/ /\ error_text' = << >>
             /\ yielded' = OnException(yielded)
             /\ ending' = "exception"
  /\ s_pc' = "closed"
  /\ UNCHANGED <<wire, buffer, token_file, received, notClient>>

\* The response has status 200 (line 146: buffer = "").
CallStreams ==
  /\ s_pc = "idle"
  /\ GetToken(token_file) # None
  /\ requests' = requests + 1
  /\ \E body \in Streams : wire' = body
  /\ buffer' = << >>
  /\ s_pc' = "streaming"
  /\ status_code' = 200
  /\ received' = << >>
  /\ UNCHANGED <<yielded, ending, token_file, error_text, notClient>>

\* Lines 147-157: one chunk of aiter_text (any non-empty prefix of what is
\* still to come).
ReceiveChunk ==
  /\ s_pc = "streaming"
  /\ \E n \in 1..Len(wire) :
       LET drained == DrainBuffer(buffer \o SubSeq(wire, 1, n)) IN
       /\ wire' = SubSeq(wire, n + 1, Len(wire))
       /\ received' = received \o SubSeq(wire, 1, n)
       /\ buffer' = drained.buffer
       /\ yielded' = yielded \o drained.events
  /\ UNCHANGED <<s_pc, ending, token_file, requests, status_code, error_text,
                 notClient>>

\* aiter_text raises (connection lost, timeout): lines 167-172.
StreamRaises ==
  /\ s_pc = "streaming"
  /\ yielded' = OnException(yielded)
  /\ s_pc' = "closed"
  /\ ending' = "exception"
  /\ UNCHANGED <<wire, buffer, token_file, requests, status_code, error_text,
                 received, notClient>>

\* aiter_text is exhausted: lines 159-165.
EndOfStream ==
  /\ s_pc = "streaming"
  /\ wire = << >>
  /\ yielded' = OnCompletion(yielded \o FlushBuffer(buffer))
  /\ buffer' = << >>
  /\ s_pc' = "closed"
  /\ ending' = "success"
  /\ UNCHANGED <<wire, token_file, requests, status_code, error_text, received,
                 notClient>>

\* The generator is finished; the client serves the next call, in a
\* container that has the token file or not.
NextCall ==
  /\ s_pc = "closed"
  /\ s_pc' = "idle"
  /\ wire' = << >>
  /\ buffer' = << >>
  /\ yielded' = << >>
  /\ ending' = "none"
  /\ token_file' \in BOOLEAN
  /\ requests' = 0
  /\ status_code' = 0
  /\ error_text' = << >>
  /\ received' = << >>
  /\ UNCHANGED notClient

SNext ==
  \/ CallWithoutToken
  \/ CallRaises
  \/ CallNon200
  \/ CallStreams
  \/ ReceiveChunk
  \/ StreamRaises
  \/ EndOfStream
  \/ NextCall

\* ========================================================== ORCHESTRATOR
\* A message is a sequence of tokens: words, the space, the newline. A
\* pattern is a sequence of the words and spaces it spells, with DotOpt for
\* ".?" and DotStar for ".*".
DotOpt == ".?"
DotStar == ".*"

\* The tokens that are one character long.
IsChar(t) == t \in {SP, NL, "?"}

\* str.lower, token by token.
Lower(t) ==
  CASE t = "ROUTE"   -> "route"
    [] t = "What"    -> "what"
    [] t = "Token"   -> "token"
    [] t = "EXPIRED" -> "expired"
    [] OTHER         -> t

\* message.lower() (line 137)
MessageLower(m) == [i \in 1..Len(m) |-> Lower(m[i])]

\* The messages classified.
Words ==
  {"ghost", "cycle", "time", "route", "ROUTE", "predict", "what", "total",
   "find", "status", "hello", SP, NL}

Messages == SeqsUpTo(Words, MaxWords)

\* Whether pattern p from element i on matches m from position j on ("."
\* matches any character but the newline).
RECURSIVE MatchAt(_, _, _, _)
MatchAt(p, i, m, j) ==
  IF i > Len(p) THEN TRUE
  ELSE IF p[i] = DotOpt
    THEN \/ MatchAt(p, i + 1, m, j)
         \/ /\ j <= Len(m)
            /\ IsChar(m[j])
            /\ m[j] # NL
            /\ MatchAt(p, i + 1, m, j + 1)
  ELSE IF p[i] = DotStar
    THEN \/ MatchAt(p, i + 1, m, j)
         \/ /\ j <= Len(m)
            /\ m[j] # NL
            /\ MatchAt(p, i, m, j + 1)
  ELSE /\ j <= Len(m)
       /\ m[j] = p[i]
       /\ MatchAt(p, i + 1, m, j + 1)

\* re.search(pattern, message_lower)
ReSearch(p, m) == \E j \in 1..(Len(m) + 1) : MatchAt(p, 1, m, j)

\* Lines 140-147
ghost_patterns ==
  << <<"ghost", DotOpt, "cycle">>, <<"fuel", DotOpt, "waste">>, <<"idle">>,
     <<"inefficien">>, <<"burning", SP, "fuel">>, <<"not", SP, "working">> >>

\* Lines 153-161
route_patterns ==
  << <<"route">>, <<"traffic">>, <<"choke", DotOpt, "point">>, <<"congestion">>,
     <<"bottleneck">>, <<"divert">>, <<"alternate">> >>

\* Lines 167-172
cycle_patterns ==
  << <<"cycle", DotOpt, "time">>, <<"how", SP, "long">>,
     <<"predict", DotStar, "time">>, <<"estimate", DotStar, "time">> >>

\* Lines 178-184
ml_patterns ==
  << <<"why", DotStar, "detect">>, <<"explain", DotStar, "model">>,
     <<"feature", DotStar, "import">>, <<"shap">>, <<"what", DotStar, "predict">> >>

\* Lines 190-198
analytical_patterns ==
  << <<"how", SP, "many">>, <<"total">>, <<"count">>, <<"average">>, <<"list">>,
     <<"show", SP, "me", DotStar, "data">>, <<"statistics">> >>

\* Lines 204-212
search_patterns ==
  << <<"search">>, <<"find">>, <<"safety">>, <<"geotechnical">>, <<"document">>,
     <<"procedure">>, <<"history">> >>

\* Lines 218-224
status_patterns ==
  << <<"status">>, <<"current">>, <<"right", SP, "now">>, <<"fleet">>,
     <<"equipment">> >>

\* for pattern in patterns: if re.search(pattern, message_lower)
AnyPattern(patterns, message_lower) ==
  \E k \in 1..Len(patterns) : ReSearch(patterns[k], message_lower)

\* A classifier that tests the route patterns before the ghost patterns.
ClassifyIntent_RouteFirst(m) ==
  LET message_lower == MessageLower(m) IN
  IF AnyPattern(route_patterns, message_lower) THEN "route"
  ELSE IF AnyPattern(ghost_patterns, message_lower) THEN "ghost_cycle"
  ELSE IF AnyPattern(cycle_patterns, message_lower) THEN "cycle_time"
  ELSE IF AnyPattern(ml_patterns, message_lower) THEN "ml_explain"
  ELSE IF AnyPattern(analytical_patterns, message_lower) THEN "analytical"
  ELSE IF AnyPattern(search_patterns, message_lower) THEN "search"
  ELSE IF AnyPattern(status_patterns, message_lower) THEN "status"
  ELSE "general"

\* Lines 135-229
_classify_intent(m) ==
  LET message_lower == MessageLower(m) IN
  IF AnyPattern(ghost_patterns, message_lower) THEN "ghost_cycle"
  ELSE IF AnyPattern(route_patterns, message_lower) THEN "route"
  ELSE IF AnyPattern(cycle_patterns, message_lower) THEN "cycle_time"
  ELSE IF AnyPattern(ml_patterns, message_lower) THEN "ml_explain"
  ELSE IF AnyPattern(analytical_patterns, message_lower) THEN "analytical"
  ELSE IF AnyPattern(search_patterns, message_lower) THEN "search"
  ELSE IF AnyPattern(status_patterns, message_lower) THEN "status"
  ELSE "general"

\* One call of _classify_intent.
ClassifyIntent ==
  /\ c_pc = "idle"
  /\ \E m \in Messages :
       /\ c_message' = m
       /\ intent' = _classify_intent(m)
  /\ c_pc' = "returned"
  /\ UNCHANGED notOrchestrator

\* The caller has the intent; the orchestrator takes the next message.
ClassifyReturn ==
  /\ c_pc = "returned"
  /\ c_pc' = "idle"
  /\ c_message' = << >>
  /\ intent' = "general"
  /\ UNCHANGED notOrchestrator

CNext ==
  \/ ClassifyIntent
  \/ ClassifyReturn

\* ===================================================== ORCHESTRATOR TURN
\* The messages of the chat turns: one or two per intent, among them
\* "What's the average cycle time?".
TurnMessages ==
  { << >>,
    <<"hello">>,
    <<"ghost", SP, "cycle">>,
    <<"route">>,
    <<"What", "'s", SP, "the", SP, "average", SP, "cycle", SP, "time", "?">>,
    <<"what", SP, "predict">>,
    <<"total">>,
    <<"find">>,
    <<"find", SP, "time">>,
    <<"status">> }

\* site_id: not given, empty, or a site.
SiteOverrides == {None, Some(""), Some("BETA"), Some("GAMMA")}

\* if site_id: (None and "" are falsy)
SiteGiven(site_id) == site_id # None /\ site_id # Some("")

\* A turn that undoes its site override when the handler raises.
SiteAfterOverride_RevertedOnFailure(site, site_id, raised) ==
  IF SiteGiven(site_id) /\ ~raised THEN CHOOSE x \in site_id : TRUE ELSE site

\* Lines 71-72: self.context["site_id"] after the override; nothing later
\* in the turn writes it, whether the handler returns or raises.
SiteAfterOverride(site, site_id, raised) ==
  IF SiteGiven(site_id) THEN CHOOSE x \in site_id : TRUE ELSE site

\* "word" in message.lower()
HasWord(word, m) == \E i \in 1..Len(m) : Lower(m[i]) = word

\* What a backend query answers: execute_query returns rows, [] when it
\* failed (it raises nothing, lines 199-209 and 234-239).
FeatureRows == { [FEATURE_NAME |-> "SPEED", FEATURE_DIRECTION |-> "positive"] }
MetricRows == { [METRIC_NAME |-> "AUC", METRIC_VALUE |-> 91] }
DocumentRows == { [TITLE |-> "Safety Plan", DOCUMENT_TYPE |-> "SAFETY", CONTENT |-> "text"] }
CycleRows == { [avg_cycle_time |-> 220, total_cycles |-> 7] }
SummaryRows == { [active_count |-> 4, cycles_today |-> 7] }
SqlRows == { [TOTAL |-> 7] }

Answers(Rows) == SeqsUpTo(Rows, MaxAnswerRows)

\* What a call of a service method that catches nothing itself does.
CallOutcomes(Rows) ==
  { [raises |-> TRUE, rows |-> << >>] }
  \cup { [raises |-> FALSE, rows |-> r] : r \in Answers(Rows) }

\* The detection pass of a chat turn (lines 236-240, 376-380): the telemetry
\* as equipment_data, no zone metrics; its service answers the ghost-cycle
\* feed and nothing else.
WatchdogPass(telemetry, feed) ==
  ProcessResult(feed, << >>, telemetry, << >>, default_thresholds)

\* Lines 231-276
_handle_ghost_cycle(m, site, telemetry, feed, features) ==
  LET res == WatchdogPass(telemetry, feed)
      head == IF Len(res.ghost_cycles) > 0 THEN "GHOST_CYCLE_ALERT"
              ELSE "NO_GHOST_CYCLES"
  IN [raised |-> FALSE,
      response |-> <<head>> \o (IF Len(features) > 0 THEN <<"KEY_FACTORS">> ELSE << >>),
      sources |-> Some(<<"GHOST_CYCLE_DETECTOR model", "Real-time telemetry">>),
      data |-> Some(res),
      invoked |-> {"watchdog", "historian"},
      site_used |-> Some(site)]

\* RouteAdvisorAgent.process (route_advisor.py, lines 38-90): the three
\* queries answer rows or, failing, nothing.
RouteAdvisorProcess(site, choke, cycles) ==
  [choke_points |-> choke,
   cycle_analysis |-> IF Len(cycles) > 0 THEN cycles[1] ELSE EmptyDict,
   predicted_cycle_time |-> [confidence |-> IF Len(choke) > 0 THEN 70 ELSE 85]]

\* Lines 278-321
_handle_routing(m, site, choke, cycles) ==
  LET res == RouteAdvisorProcess(site, choke, cycles) IN
  [raised |-> FALSE,
   response |-> <<"ROUTE_RECOMMENDATIONS">>
                \o (IF Len(choke) > 0 THEN <<"CHOKE_POINTS">> ELSE << >>)
                \o <<"PREDICTED_CYCLE_TIME">>,
   sources |-> Some(<<"CHOKE_POINT_PREDICTOR model", "CYCLE_TIME_OPTIMIZER model">>),
   data |-> Some(res),
   invoked |-> {"route_advisor"},
   site_used |-> Some(site)]

\* HistorianAgent.process (historian.py, lines 38-80): search_documents,
\* then get_cycle_analysis when the query speaks of cycles or times; neither
\* call is inside a try. SnowflakeServiceSPCS defines neither method, so each
\* call raises (AttributeError); the rows are what a service that has them
\* answers.
HistorianProcess(query, site, search, cycle) ==
  IF query # << >> /\ search.raises THEN [raised |-> TRUE]
  ELSE IF (HasWord("cycle", query) \/ HasWord("time", query)
           \/ HasWord("efficiency", query) \/ HasWord("performance", query))
          /\ cycle.raises THEN [raised |-> TRUE]
  ELSE [raised |-> FALSE,
        document_results |-> IF query # << >> THEN search.rows ELSE << >>,
        cycle_analysis |->
          IF HasWord("cycle", query) \/ HasWord("time", query)
             \/ HasWord("efficiency", query) \/ HasWord("performance", query)
            THEN cycle.rows ELSE << >>]

\* What a handler leaves behind when an exception passes through it.
Raised(agents, site) ==
  [raised |-> TRUE, response |-> << >>, sources |-> None, data |-> None,
   invoked |-> agents, site_used |-> Some(site)]

\* Lines 323-351
_handle_search(m, site, search, cycle) ==
  LET res == HistorianProcess(m, site, search, cycle) IN
  IF res.raised THEN Raised({"historian"}, site)
  ELSE [raised |-> FALSE,
        response |-> IF Len(res.document_results) > 0 THEN <<"DOCUMENTS_FOUND">>
                     ELSE <<"NO_DOCUMENTS">>,
        sources |-> Some([i \in 1..Len(res.document_results) |->
                            Get(res.document_results[i], "TITLE", "Document")]),
        data |-> Some(res),
        invoked |-> {"historian"},
        site_used |-> Some(site)]

\* Lines 353-386 (no "sources" key)
_handle_status(m, site, summary, telemetry, feed) ==
  LET res == WatchdogPass(telemetry, feed)
      fleet == IF Len(summary) > 0 THEN summary[1] ELSE EmptyDict
  IN [raised |-> FALSE,
      response |-> <<"FLEET_STATUS">>
                   \o (IF Len(summary) > 0 THEN <<"SUMMARY">> ELSE <<"NO_STATUS_DATA">>)
                   \o (IF Len(res.alerts) > 0 THEN <<"ACTIVE_ALERTS">> ELSE << >>),
      sources |-> None,
      data |-> Some([summary |-> fleet, alerts |-> res.alerts]),
      invoked |-> {"watchdog"},
      site_used |-> Some(site)]

\* A cycle-time handler that asks the knowledge-retrieval specialist too.
HandleCycleTime_AsksHistorian(m, site, choke, cycles) ==
  LET res == RouteAdvisorProcess(site, choke, cycles) IN
  [raised |-> FALSE,
   response |-> <<"CYCLE_TIME_ANALYSIS">>,
   sources |-> None,
   data |-> Some(res),
   invoked |-> {"route_advisor", "historian"},
   site_used |-> Some(site)]

\* Lines 388-415 (no "sources" key)
_handle_cycle_time(m, site, choke, cycles) ==
  LET res == RouteAdvisorProcess(site, choke, cycles) IN
  [raised |-> FALSE,
   response |-> <<"CYCLE_TIME_ANALYSIS">>
                \o (IF Len(cycles) > 0 THEN <<"AVERAGE">> ELSE << >>)
                \o <<"PREDICTED_NEXT_CYCLE">>,
   sources |-> None,
   data |-> Some(res),
   invoked |-> {"route_advisor"},
   site_used |-> Some(site)]

\* Lines 417-458 (no "data" key; the site is not read)
_handle_ml_explanation(m, features, metrics) ==
  [raised |-> FALSE,
   response |-> << IF HasWord("ghost", m) \/ HasWord("cycle", m)
                     THEN "GHOST_CYCLE_DETECTOR"
                   ELSE IF HasWord("choke", m) \/ HasWord("traffic", m)
                     THEN "CHOKE_POINT_PREDICTOR"
                   ELSE "CYCLE_TIME_OPTIMIZER" >>
                \o (IF Len(features) > 0 THEN <<"TOP_FEATURES">> ELSE << >>)
                \o (IF Len(metrics) > 0 THEN <<"MODEL_PERFORMANCE">> ELSE << >>),
   sources |-> Some(<<"ML.GLOBAL_FEATURE_IMPORTANCE", "ML.MODEL_METRICS">>),
   data |-> None,
   invoked |-> {"historian"},
   site_used |-> None]

\* Lines 460-488: direct_sql_query answers with rows, or with none (the
\* question was not understood, or the query failed).
_handle_analytical(m, rows) ==
  IF Len(rows) > 0
    THEN [raised |-> FALSE, response |-> <<"QUERY_RESULTS">>,
          sources |-> Some(<<"CONSTRUCTION_GEO_DB">>),
          data |-> Some([results |-> rows]),
          invoked |-> {}, site_used |-> None]
    ELSE [raised |-> FALSE, response |-> <<"COULD_NOT_PROCESS">>,
          sources |-> Some(<< >>),
          data |-> Some(EmptyDict),
          invoked |-> {}, site_used |-> None]

\* Lines 490-507 (no "data" key)
_handle_general(m) ==
  [raised |-> FALSE, response |-> <<"HELP">>, sources |-> Some(<< >>),
   data |-> None, invoked |-> {}, site_used |-> None]

\* Lines 83-126: the handler the intent is dispatched to, over what the
\* backend can answer during the turn.
HandlerResults(it, m, site) ==
  IF it = "analytical"
    THEN { _handle_analytical(m, rows) : rows \in Answers(SqlRows) }
  ELSE IF it \in {"ghost_cycle", "fuel", "efficiency"}
    THEN { _handle_ghost_cycle(m, site, t, f, fi) :
             t \in Answers(EquipmentRecords), f \in Answers(GhostPredictions),
             fi \in Answers(FeatureRows) }
  ELSE IF it \in {"route", "traffic", "choke", "congestion"}
    THEN { _handle_routing(m, site, c, cy) :
             c \in Answers(ChokePredictions), cy \in Answers(CycleRows) }
  ELSE IF it \in {"search", "history", "safety", "document"}
    THEN { _handle_search(m, site, sr, cy) :
             sr \in CallOutcomes(DocumentRows), cy \in CallOutcomes(CycleRows) }
  ELSE IF it \in {"status", "current", "monitor", "fleet"}
    THEN { _handle_status(m, site, su, t, f) :
             su \in Answers(SummaryRows), t \in Answers(EquipmentRecords),
             f \in Answers(GhostPredictions) }
  ELSE IF it = "cycle_time"
    THEN { _handle_cycle_time(m, site, c, cy) :
             c \in Answers(ChokePredictions), cy \in Answers(CycleRows) }
  ELSE IF it = "ml_explain"
    THEN { _handle_ml_explanation(m, fi, me) :
             fi \in Answers(FeatureRows), me \in Answers(MetricRows) }
  ELSE { _handle_general(m) }

\* A dispatch that files the cycle-time data under the routing key.
ContextKey_CycleTimeUnderRoute(it) ==
  IF it = "analytical" THEN Some("query_results")
  ELSE IF it \in {"ghost_cycle", "fuel", "efficiency"} THEN Some("ghost_cycles")
  ELSE IF it \in {"route", "traffic", "choke", "congestion", "cycle_time"}
    THEN Some("route_recommendations")
  ELSE IF it \in {"search", "history", "safety", "document"} THEN Some("document_results")
  ELSE IF it \in {"status", "current", "monitor", "fleet"} THEN Some("fleet_status")
  ELSE None

\* Lines 83-126: the key of context_data the handler's data goes under
\* (none for ml_explain and for the general branch).
ContextKey(it) ==
  IF it = "analytical" THEN Some("query_results")
  ELSE IF it \in {"ghost_cycle", "fuel", "efficiency"} THEN Some("ghost_cycles")
  ELSE IF it \in {"route", "traffic", "choke", "congestion"} THEN Some("route_recommendations")
  ELSE IF it \in {"search", "history", "safety", "document"} THEN Some("document_results")
  ELSE IF it \in {"status", "current", "monitor", "fleet"} THEN Some("fleet_status")
  ELSE IF it = "cycle_time" THEN Some("cycle_analysis")
  ELSE None

\* result.get("data", {})
DataOrEmpty(h) == IF h.data = None THEN EmptyDict ELSE CHOOSE d \in h.data : TRUE

\* Lines 78-81, 83-126: context_data after the dispatch.
ContextData(it, h) ==
  [k \in ContextKey(it) |-> DataOrEmpty(h)]

\* Lines 83-126: sources.extend(result.get("sources", [])), in the branches
\* that have it.
TurnSources(it, h) ==
  IF it \in {"status", "current", "monitor", "fleet", "cycle_time"} \/ h.sources = None
    THEN << >>
    ELSE CHOOSE x \in h.sources : TRUE

\* Lines 128-133
TurnResult(it, h) ==
  [response |-> h.response,
   sources |-> TurnSources(it, h),
   context |-> ContextData(it, h),
   intent |-> it]

NoHandled == _handle_general(<< >>)
NoTurnResult == TurnResult("general", NoHandled)

\* One call of process_message (lines 53-133). The handlers await
\* coroutines that never suspend, so the call is one step; it returns, or an
\* exception of the handler passes through it.
ProcessMessage ==
  /\ o_pc = "idle"
  /\ \E m \in TurnMessages, site_id \in SiteOverrides :
       LET site == SiteAfterOverride(context_site, site_id, FALSE)
           it == _classify_intent(m)
       IN \E h \in HandlerResults(it, m, site) :
            /\ o_message' = m
            /\ o_site_id' = site_id
            /\ site_before' = context_site
            /\ last_given' = IF site_id \in {Some("BETA"), Some("GAMMA")}
                               THEN CHOOSE x \in site_id : TRUE ELSE last_given
            /\ context_site' = SiteAfterOverride(context_site, site_id, h.raised)
            /\ o_intent' = it
            /\ o_handled' = h
            /\ o_result' = IF h.raised THEN NoTurnResult ELSE TurnResult(it, h)
            /\ o_pc' = IF h.raised THEN "raised" ELSE "returned"
  /\ UNCHANGED notTurn

\* The caller has the response (or the exception); the orchestrator, a
\* singleton, keeps its context for the next turn.
TurnEnds ==
  /\ o_pc \in {"returned", "raised"}
  /\ o_pc' = "idle"
  /\ site_before' = context_site
  /\ o_message' = << >>
  /\ o_site_id' = None
  /\ o_intent' = "general"
  /\ o_handled' = NoHandled
  /\ o_result' = NoTurnResult
  /\ UNCHANGED <<context_site, last_given, notTurn>>

ONext ==
  \/ ProcessMessage
  \/ TurnEnds

\* ======================================================== QUERY SERVICE
\* The messages of the exceptions a query or a connection raises, as
\* tokens: "390114" is Snowflake's code for an expired OAuth token.
ErrorMessages ==
  { <<"390114">>,
    <<"Token", SP, "EXPIRED">>,
    <<"OAuth", SP, "token", SP, "expired">>,
    <<"token", SP, "invalid">>,
    <<"session", SP, "expired">>,
    <<"SQL", SP, "compilation", SP, "error">> }

\* A test that takes every failure for a token expiry.
TokenExpired_AnyError(error_msg) == TRUE

\* Lines 136-137: the test of _reconnect_if_needed.
TokenExpired(error_msg) ==
  \/ \E i \in 1..Len(error_msg) : error_msg[i] = "390114"
  \/ HasWord("token", error_msg) /\ HasWord("expired", error_msg)

\* Lines 38-52, 68-95: a service is constructed. In SPCS the Snowpark
\* session is created or not; when its creation or its first statements
\* raise, the connector fallback runs and connects or not. Outside SPCS
\* neither is set.
NewService ==
  /\ q_pc = "idle"
  /\ \E spcs \in BOOLEAN, session \in BOOLEAN, connection \in BOOLEAN :
       /\ spcs \/ (~session /\ ~connection)
       /\ is_spcs' = spcs
       /\ q_session' = session
       /\ q_connection' = connection
  /\ UNCHANGED <<q_pc, q_retry, q_errors, q_attempts, q_reconnects, q_rows,
                 q_handles, notQuery>>

\* Lines 142-147, 149-151: execute_query(query) enters
\* _execute_query_snowpark with retry=True, or _execute_query_cli.
ExecuteQuery ==
  /\ q_pc = "idle"
  /\ q_pc' = "try"
  /\ q_retry' = TRUE
  /\ q_errors' = << >>
  /\ q_attempts' = 0
  /\ q_reconnects' = << >>
  /\ q_rows' = << >>
  /\ q_handles' = << >>
  /\ UNCHANGED <<is_spcs, q_session, q_connection, notQuery>>

\* Lines 157-159, 174-177: what the try block hands the query to:
\* self._session when it is set, else self._connection, which is the one
\* the service had at the call or the one _init_connector_fallback made
\* during it (line 120).
HandleUsed(session, reconnects) ==
  IF session THEN "session"
  ELSE IF \E i \in 1..Len(reconnects) : reconnects[i] THEN "new_connection"
  ELSE "connection"

\* Lines 153-198: the try block. With a session or a connection the query
\* runs and answers rows or raises; with neither, [] is returned.
TryQuery ==
  /\ q_pc = "try"
  /\ is_spcs
  /\ IF q_session \/ q_connection
       THEN /\ q_attempts' = q_attempts + 1
            /\ q_handles' = Append(q_handles, HandleUsed(q_session, q_reconnects))
            /\ \/ /\ \E rows \in Answers(SqlRows) : q_rows' = rows
                  /\ q_pc' = "returned"
                  /\ UNCHANGED q_errors
               \/ /\ \E e \in ErrorMessages : q_errors' = Append(q_errors, e)
                  /\ q_pc' = "except"
                  /\ UNCHANGED q_rows
       ELSE /\ q_rows' = << >>
            /\ q_pc' = "returned"
            /\ UNCHANGED <<q_attempts, q_errors, q_handles>>
  /\ UNCHANGED <<is_spcs, q_session, q_connection, q_retry, q_reconnects, notQuery>>

\* Lines 200-209 with 134-140 and 97-132: the except clause. When retry
\* is set and the message tells a token expiry, _init_connector_fallback
\* drops the connection and connects anew; if that succeeds the query is
\* run again with retry=False, else (and in every other case) [] is
\* returned.
ExceptQuery ==
  /\ q_pc = "except"
  /\ IF q_retry /\ TokenExpired(q_errors[Len(q_errors)])
       THEN \E connected \in BOOLEAN :
              /\ q_connection' = connected
              /\ q_reconnects' = Append(q_reconnects, connected)
              /\ IF connected
                   THEN /\ q_retry' = FALSE
                        /\ q_pc' = "try"
                        /\ UNCHANGED q_rows
                   ELSE /\ q_rows' = << >>
                        /\ q_pc' = "returned"
                        /\ UNCHANGED q_retry
       ELSE /\ q_rows' = << >>
            /\ q_pc' = "returned"
            /\ UNCHANGED <<q_connection, q_reconnects, q_retry>>
  /\ UNCHANGED <<is_spcs, q_session, q_errors, q_attempts, q_handles, notQuery>>

\* Lines 211-239: outside SPCS the snow CLI runs the query once; rows
\* when it succeeds, [] on a non-zero exit or any exception.
ExecuteQueryCli ==
  /\ q_pc = "try"
  /\ ~is_spcs
  /\ q_attempts' = q_attempts + 1
  /\ q_handles' = Append(q_handles, "cli")
  /\ \/ /\ \E rows \in Answers(SqlRows) : q_rows' = rows
        /\ UNCHANGED q_errors
     \/ /\ \E e \in ErrorMessages : q_errors' = Append(q_errors, e)
        /\ q_rows' = << >>
  /\ q_pc' = "returned"
  /\ UNCHANGED <<is_spcs, q_session, q_connection, q_retry, q_reconnects, notQuery>>

\* The caller has the rows; the service serves the next query.
QueryReturn ==
  /\ q_pc = "returned"
  /\ q_pc' = "idle"
  /\ q_retry' = TRUE
  /\ q_errors' = << >>
  /\ q_attempts' = 0
  /\ q_reconnects' = << >>
  /\ q_rows' = << >>
  /\ q_handles' = << >>
  /\ UNCHANGED <<is_spcs, q_session, q_connection, notQuery>>

QNext ==
  \/ NewService
  \/ ExecuteQuery
  \/ TryQuery
  \/ ExceptQuery
  \/ ExecuteQueryCli
  \/ QueryReturn

\* ===================================================== CONCURRENT TURNS
\* Two process_message coroutines of the one orchestrator, run as tasks of
\* one asyncio event loop (api/main.py:193-208). The loop switches tasks
\* only where a task suspends.
Tasks == {1, 2}

GatherMessages ==
  { <<"status">>, <<"ghost", SP, "cycle">>, <<"route">>, <<"find">>, <<"hello">> }
GatherSites == {"BETA", "GAMMA", "DELTA"}

NoTask ==
  [message |-> << >>, site_id |-> None, state |-> "none", intent |-> "general",
   site_used |-> None, raised |-> FALSE]
NoTasks == [t \in Tasks |-> NoTask]

\* A turn whose handler suspends before it reads the site, so that the
\* override of a task not yet run can be written in between.
SitesAtDispatch_Suspending(site, pending) == {site} \cup pending

\* Lines 71-126: the values self.context["site_id"] can hold when the
\* handler reads it. Between the write of line 72 and the handler's reads
\* the turn awaits only coroutines that call the synchronous service and
\* never suspend, so no other task runs and the value is the one written.
SitesAtDispatch(site, pending) == {site}

\* The overrides of the tasks created and not yet run, other than t.
PendingOverrides(t) ==
  UNION { g_tasks[u].site_id : u \in {v \in Tasks \ {t} : g_tasks[v].state = "pending"} }

\* Two requests arrive together, each with its own site override; a task
\* is created for each.
Gather ==
  /\ g_pc = "idle"
  /\ \E m1, m2 \in GatherMessages, s1, s2 \in GatherSites :
       /\ s1 # s2
       /\ g_tasks' = [t \in Tasks |->
            [NoTask EXCEPT !.message = IF t = 1 THEN m1 ELSE m2,
                           !.site_id = Some(IF t = 1 THEN s1 ELSE s2),
                           !.state = "pending"]]
  /\ g_pc' = "scheduled"
  /\ g_order' = << >>
  /\ UNCHANGED <<context_site, notGather>>

\* The loop runs one task: its process_message (lines 53-133) from the
\* first statement to the return or the exception.
RunTask ==
  /\ g_pc = "scheduled"
  /\ \E t \in Tasks :
       /\ g_tasks[t].state = "pending"
       /\ LET task == g_tasks[t]
              site == SiteAfterOverride(context_site, task.site_id, FALSE)
              it == _classify_intent(task.message)
          IN \E read \in SitesAtDispatch(site, PendingOverrides(t)) :
             \E h \in HandlerResults(it, task.message, read) :
               /\ context_site' = SiteAfterOverride(context_site, task.site_id, h.raised)
               /\ g_tasks' = [g_tasks EXCEPT ![t] =
                    [task EXCEPT !.state = "done", !.intent = it,
                                 !.site_used = h.site_used, !.raised = h.raised]]
               /\ g_order' = Append(g_order, t)
               /\ g_pc' = IF \A u \in Tasks \ {t} : g_tasks[u].state = "done"
                            THEN "gathered" ELSE "scheduled"
  /\ UNCHANGED notGather

\* Both responses are out; the orchestrator keeps its context.
GatherEnds ==
  /\ g_pc = "gathered"
  /\ g_pc' = "idle"
  /\ g_tasks' = NoTasks
  /\ g_order' = << >>
  /\ UNCHANGED <<context_site, notGather>>

GNext == Gather \/ RunTask \/ GatherEnds

\* ============================================================ RUN AGENT
\* The messages of a conversation history and the questions asked.
HistoryMessages ==
  { [role |-> "user", content |-> "hi"], [role |-> "assistant", content |-> "hello"] }
Histories == SeqsUpTo(HistoryMessages, MaxHistory)
Questions == {"how many trucks", "any ghost cycles", "fleet status"}

\* Lines 56-77: _format_messages_for_api; content becomes a list of one
\* text object.
_format_messages_for_api(messages) ==
  [i \in 1..Len(messages) |->
     [role |-> messages[i].role,
      content |-> << [type |-> "text", text |-> messages[i].content] >>]]

\* Line 348: conversation_history or []. A non-empty list is the caller's
\* own list object (aliased); an empty one is falsy and a new list is made.
Aliased(conversation_history) == conversation_history # << >>

\* A caller builds a history list for a conversation.
NewHistory ==
  /\ r_pc = "idle"
  /\ \E h \in Histories :
       /\ r_history' = h
       /\ r_before' = h
  /\ r_argument' = << >>
  /\ r_message' = "none"
  /\ r_request' = << >>
  /\ r_calls' = 0
  /\ UNCHANGED <<r_pc, notRunAgent>>

\* Lines 333-352 with 112-134: run_agent(message, conversation_history)
\* appends the user message to messages (line 349), which is the caller's
\* list when that is non-empty, and run_agent_stream sends the formatted
\* messages.
RunAgent ==
  /\ r_pc = "idle"
  /\ r_calls < MaxCalls
  /\ \E message \in Questions :
       LET messages == Append(r_history, [role |-> "user", content |-> message]) IN
       /\ r_message' = message
       /\ r_history' = IF Aliased(r_history) THEN messages ELSE r_history
       /\ r_request' = _format_messages_for_api(messages)
  /\ r_argument' = r_history
  /\ r_calls' = r_calls + 1
  /\ r_pc' = "called"
  /\ UNCHANGED <<r_before, notRunAgent>>

\* The events of the stream have been passed on (lines 351-352); the
\* caller may call again with its list.
RunAgentEnds ==
  /\ r_pc = "called"
  /\ r_pc' = "idle"
  /\ UNCHANGED <<r_history, r_before, r_argument, r_message, r_request, r_calls,
                 notRunAgent>>

RNext == NewHistory \/ RunAgent \/ RunAgentEnds

\* ======================================================= SPECIFICATIONS
vars == <<wvars, svars, cvars, tvars, pvars, qvars, rvars, gvars>>

\* After construction: the agent has its default thresholds and no service
\* loaded (lines 27-36); the client has made no call.
Init ==
  /\ w_pc = "idle"
  /\ sf_service = FALSE
  /\ optimal = NoOutcome
  /\ thresholds = default_thresholds
  /\ ml_ghost_cycles = <<>>
  /\ ml_choke_points = <<>>
  /\ equipment_data = <<>>
  /\ zone_metrics = <<>>
  /\ result = NoResult
  /\ fetches = NoFetches
  /\ s_pc = "idle"
  /\ wire = << >>
  /\ buffer = << >>
  /\ yielded = << >>
  /\ ending = "none"
  /\ c_pc = "idle"
  /\ c_message = << >>
  /\ intent = "general"
  /\ o_pc = "idle"
  /\ context_site = "ALPHA"
  /\ site_before = "ALPHA"
  /\ last_given = "ALPHA"
  /\ o_message = << >>
  /\ o_site_id = None
  /\ o_intent = "general"
  /\ o_handled = NoHandled
  /\ o_result = NoTurnResult
  /\ token_file = TRUE
  /\ requests = 0
  /\ status_code = 0
  /\ error_text = << >>
  /\ received = << >>
  /\ p_pc = "idle"
  /\ p_tag = None
  /\ p_payload = None
  /\ p_frame = << >>
  /\ p_event = None
  /\ q_pc = "idle"
  /\ is_spcs = TRUE
  /\ q_session = TRUE
  /\ q_connection = FALSE
  /\ q_retry = TRUE
  /\ q_errors = << >>
  /\ q_attempts = 0
  /\ q_reconnects = << >>
  /\ q_rows = << >>
  /\ q_handles = << >>
  /\ r_pc = "idle"
  /\ r_history = << >>
  /\ r_before = << >>
  /\ r_argument = << >>
  /\ r_message = "none"
  /\ r_request = << >>
  /\ r_calls = 0
  /\ g_pc = "idle"
  /\ g_tasks = NoTasks
  /\ g_order = << >>

\* The watchdog's process.
SpecWatchdog == Init /\ [][WNext]_vars

\* _get_optimal_thresholds alone.
SpecThresholds == Init /\ [][TNext]_vars

\* The agent client's run_agent_stream.
SpecStream == Init /\ [][SNext]_vars

\* The orchestrator's _classify_intent.
SpecClassify == Init /\ [][CNext]_vars

\* The orchestrator's process_message, turn after turn.
SpecTurn == Init /\ [][ONext]_vars
SpecParse == Init /\ [][PNext]_vars
SpecQuery == Init /\ [][QNext]_vars
SpecRunAgent == Init /\ [][RNext]_vars
SpecGather == Init /\ [][GNext]_vars

\* ===================================================== AGENT CLIENT CLAIMS
LastYielded == yielded[Len(yielded)]

TerminalEvents == {i \in 1..Len(yielded) : yielded[i].type \in {"done", "error"}}

C2_ExactlyOneTerminalEvent ==
  s_pc = "closed" => Cardinality(TerminalEvents) = 1

\* C18: when the bearer credential file is absent, a finished
\* run_agent_stream has sent no request (so none was retried) and has
\* yielded exactly one event, an error event.
C18_NoTokenNoRequestOneError ==
  (s_pc = "closed" /\ ~token_file) =>
    /\ requests = 0
    /\ Len(yielded) = 1
    /\ yielded[1].type = "error"

\* A run that ended because the token file is absent, with its one error
\* event carrying the RuntimeError's message.
C18_Witness ==
  /\ s_pc = "closed"
  /\ ~token_file
  /\ ending = "no_token"
  /\ requests = 0
  /\ yielded = OnMissingToken(<< >>)

\* The run got a response whose status is not 200.
Non200 == s_pc = "closed" /\ status_code \notin {0, 200}

\* C22 (as stated): a run whose response has a non-200 status has yielded
\* exactly one event, an error event carrying the status code and the
\* response body, and has read nothing of a body stream.
C22_Non200OneErrorWithStatusAndBody ==
  Non200 =>
    /\ Len(yielded) = 1
    /\ yielded[1].type = "error"
    /\ "details" \in DOMAIN yielded[1]
    /\ yielded[1].details = error_text
    /\ yielded[1].content = <<"Agent API error: ", status_code>>
    /\ wire = << >> /\ buffer = << >> /\ received = << >>

\* C22 (amended): a run whose response has a non-200 status has yielded
\* exactly one event, an error event, and has parsed nothing of the body;
\* the event carries the status code and the body when the body could be
\* read, and the exception's message when reading the body raised.
C22_Non200OneError ==
  Non200 =>
    /\ Len(yielded) = 1
    /\ yielded[1].type = "error"
    /\ wire = << >> /\ buffer = << >> /\ received = << >>
    /\ ending \in {"non_200", "exception"}
    /\ ending = "non_200" =>
         /\ yielded[1].content = <<"Agent API error: ", status_code>>
         /\ yielded[1].details = error_text
    /\ ending = "exception" => yielded = OnException(<< >>)

\* A 401 response whose body is itself a done frame: one error event
\* with the status and that body, and no done event.
C22_Witness ==
  /\ Non200
  /\ ending = "non_200"
  /\ status_code = 401
  /\ error_text = <<"data:", "[DONE]", NL, NL>>
  /\ Len(yielded) = 1
  /\ yielded[1].details = error_text

\* The blank-line-delimited blocks of a text, in order: a block ends where
\* two newlines follow each other; the last element is what follows the
\* last delimiter (possibly empty).
RECURSIVE Blocks(_, _, _)
Blocks(text, i, cur) ==
  IF i > Len(text) THEN << cur >>
  ELSE IF text[i] = NL /\ i < Len(text) /\ text[i + 1] = NL
    THEN << cur >> \o Blocks(text, i + 2, << >>)
  ELSE Blocks(text, i + 1, Append(cur, text[i]))

CompleteFrames(text) ==
  LET bs == Blocks(text, 1, << >>) IN SubSeq(bs, 1, Len(bs) - 1)

Remainder(text) ==
  LET bs == Blocks(text, 1, << >>) IN bs[Len(bs)]

NonBlank(text) == \E i \in 1..Len(text) : text[i] \notin {NL, SP}

\* The non-null parse results of a sequence of frames, in order.
RECURSIVE ParseResults(_)
ParseResults(frames) ==
  IF frames = << >> THEN << >>
  ELSE LET ev == _parse_sse_event(Head(frames)) IN
       (IF ev = None THEN << >> ELSE << CHOOSE e \in ev : TRUE >>)
         \o ParseResults(Tail(frames))

\* The frames of a stream that ended: the complete ones and, when it is
\* not blank, the remainder as one final frame.
AllFrames(text) ==
  CompleteFrames(text)
    \o (IF NonBlank(Remainder(text)) THEN << Remainder(text) >> ELSE << >>)

\* C23: the events run_agent_stream yields from the stream are, in
\* order, the non-null parse results of the blank-line-delimited frames
\* received so far, each frame parsed once and none skipped, the buffer
\* holding what follows the last delimiter; at the end of the stream a
\* non-blank remainder is parsed as one final frame. The run's closing
\* event (done, or error after an exception) follows them.
C23_EventsAreFrameResultsInOrder ==
  /\ s_pc = "streaming" =>
       /\ yielded = ParseResults(CompleteFrames(received))
       /\ buffer = Remainder(received)
  /\ (s_pc = "closed" /\ ending = "success") =>
       yielded = ParseResults(AllFrames(received)) \o << [type |-> "done"] >>
  /\ (s_pc = "closed" /\ ending = "exception" /\ status_code = 200) =>
       /\ SubSeq(yielded, 1, Len(yielded) - 1) = ParseResults(CompleteFrames(received))
       /\ LastYielded.type = "error"

\* A stream read to its end whose text holds a complete text frame and
\* ends in an unterminated frame with the done sentinel: the text event,
\* the done event of the final frame, then the closing done.
C23_Witness ==
  /\ s_pc = "closed"
  /\ ending = "success"
  /\ Len(CompleteFrames(received)) = 1
  /\ NonBlank(Remainder(received))
  /\ Len(yielded) = 3
  /\ yielded[1].type = "text"
  /\ yielded[2].type = "done"

\* C27: once run_agent_stream has yielded a done event it yields nothing
\* more: a done event is the last event of the yielded sequence.
C27_NothingAfterDone ==
  \A i \in 1..Len(yielded) : yielded[i].type = "done" => i = Len(yielded)

\* C30: the events yielded and the buffer kept depend only on the text
\* received, not on how it was cut into chunks: they are what delivering
\* the same text as one chunk gives.
C30_ChunkingDoesNotMatter ==
  LET one == DrainBuffer(received) IN
  /\ s_pc = "streaming" => (yielded = one.events /\ buffer = one.buffer)
  /\ (s_pc = "closed" /\ ending = "success") =>
       yielded = OnCompletion(one.events \o FlushBuffer(one.buffer))

\* A chunk ended inside the blank-line delimiter of a text frame: the
\* buffer holds the frame and one newline, the next chunk begins with the
\* second newline.
C30_Witness ==
  /\ s_pc = "streaming"
  /\ Len(buffer) >= 2
  /\ buffer[Len(buffer)] = NL
  /\ buffer[Len(buffer) - 1] # NL
  /\ \E i \in 1..Len(buffer) : buffer[i] = "{\"text\":\"abc\"}"
  /\ wire # << >>
  /\ wire[1] = NL

\* ===================================================== ORCHESTRATOR CLAIMS
\* The pattern groups in the order the specification gives, each with its
\* intent.
IntentGroups ==
  << [intent |-> "ghost_cycle", patterns |-> ghost_patterns],
     [intent |-> "route", patterns |-> route_patterns],
     [intent |-> "cycle_time", patterns |-> cycle_patterns],
     [intent |-> "ml_explain", patterns |-> ml_patterns],
     [intent |-> "analytical", patterns |-> analytical_patterns],
     [intent |-> "search", patterns |-> search_patterns],
     [intent |-> "status", patterns |-> status_patterns] >>

MatchingGroups ==
  {g \in 1..Len(IntentGroups) :
     AnyPattern(IntentGroups[g].patterns, MessageLower(c_message))}

\* C3: _classify_intent returns the intent of the first group, in the order
\* ghost-cycle, route, cycle-time, ML-explanation, analytical, search,
\* status, that has a pattern matching the lower-cased message, and general
\* when no group matches; so the empty message and "hello" give general, and
\* a message with a ghost-cycle keyword and a route keyword gives
\* ghost_cycle.
C3_FirstMatchingGroupWins ==
  c_pc = "returned" =>
    LET matching == MatchingGroups IN
    /\ \A g \in matching :
         (\A h \in matching : g <= h) => intent = IntentGroups[g].intent
    /\ matching = {} => intent = "general"
    /\ c_message \in {<< >>, <<"hello">>} => intent = "general"
    /\ {1, 2} \subseteq matching => intent = "ghost_cycle"

\* A message with a route keyword ahead of a ghost-cycle keyword, classified
\* as ghost_cycle.
C3_Witness ==
  /\ c_pc = "returned"
  /\ Len(c_message) = 3
  /\ c_message[1] = "ROUTE"
  /\ {1, 2} \subseteq MatchingGroups
  /\ intent = "ghost_cycle"

\* ============================================================ TURN CLAIMS
TurnOver == o_pc \in {"returned", "raised"}

\* C12: a site override that is given (not empty) is in the conversation
\* context before the handler runs and stays there, also when the handler
\* raised; a turn without one leaves the context site alone; so the context
\* site is always the most recent override given, ALPHA before any.
C12_SiteOverridePersists ==
  /\ context_site = last_given
  /\ TurnOver =>
       /\ o_site_id \in {Some("BETA"), Some("GAMMA")} =>
            /\ Some(context_site) = o_site_id
            /\ o_handled.site_used \in {None, o_site_id}
       /\ o_site_id \in {None, Some("")} =>
            /\ context_site = site_before
            /\ o_handled.site_used \in {None, Some(site_before)}

\* A turn that set the site to BETA, from GAMMA, and whose handler raised.
C12_Witness ==
  /\ o_pc = "raised"
  /\ o_site_id = Some("BETA")
  /\ site_before = "GAMMA"
  /\ context_site = "BETA"

\* The key the specification's dispatch table gives each intent that
\* carries data.
IntentKey ==
  [analytical |-> "query_results", ghost_cycle |-> "ghost_cycles",
   route |-> "route_recommendations", search |-> "document_results",
   status |-> "fleet_status", cycle_time |-> "cycle_analysis"]

\* C13 (as stated): for every intent, ML_EXPLAIN and GENERAL among them, the
\* context-delta map of a returned turn holds the handler's data under a key
\* of that intent, and the returned intent is the classified one.
C13_EveryIntentCarriesData ==
  (o_pc = "returned") =>
    /\ o_result.intent = _classify_intent(o_message)
    /\ Cardinality(DOMAIN o_result.context) = 1

\* C13 (amended): the returned intent is the classified one; for the six
\* intents analytical, ghost_cycle, route, search, status, cycle_time the
\* context-delta map holds exactly the handler's data ({} when it returned
\* none) under that intent's key; for ml_explain and general, whose handlers
\* return no data, the map is empty.
C13_DataUnderIntentKey ==
  (o_pc = "returned") =>
    /\ o_result.intent = _classify_intent(o_message)
    /\ o_result.intent \in DOMAIN IntentKey =>
         /\ DOMAIN o_result.context = {IntentKey[o_result.intent]}
         /\ o_handled.data \in {None, Some(o_result.context[IntentKey[o_result.intent]])}
         /\ o_handled.data = None =>
              o_result.context[IntentKey[o_result.intent]] = EmptyDict
    /\ o_result.intent \notin DOMAIN IntentKey =>
         /\ o_result.intent \in {"ml_explain", "general"}
         /\ o_handled.data = None
         /\ DOMAIN o_result.context = {}

\* A cycle-time turn that returned its analysis under cycle_analysis.
C13_Witness ==
  /\ o_pc = "returned"
  /\ o_result.intent = "cycle_time"
  /\ DOMAIN o_result.context = {"cycle_analysis"}
  /\ Len(o_result.context["cycle_analysis"].choke_points) = 1

\* C14: a chat turn whose search, analytics or prediction call fails still
\* returns a response: no exception leaves process_message.
C14_TurnAlwaysAnswers ==
  o_pc # "raised"

\* C15: a turn classified cycle_time invokes the route/cycle-time specialist
\* and no other (not the knowledge-retrieval specialist, not the detection
\* monitor); "What's the average cycle time?" is such a turn.
C15_CycleTimeOnlyRouteAdvisor ==
  TurnOver =>
    /\ o_intent = "cycle_time" => o_handled.invoked = {"route_advisor"}
    /\ (HasWord("average", o_message) /\ HasWord("cycle", o_message)) =>
         o_intent = "cycle_time"

\* "What's the average cycle time?", answered by the route advisor alone.
C15_Witness ==
  /\ o_pc = "returned"
  /\ o_message = <<"What", "'s", SP, "the", SP, "average", SP, "cycle", SP, "time", "?">>
  /\ o_intent = "cycle_time"
  /\ o_handled.invoked = {"route_advisor"}
  /\ o_result.response[1] = "CYCLE_TIME_ANALYSIS"

\* ========================================================= WATCHDOG CLAIMS
GhostAlertsOf(alerts) == SelectSeq(alerts, LAMBDA a : a.type = "GHOST_CYCLE")
ChokeAlertsOf(alerts) == SelectSeq(alerts, LAMBDA a : a.type = "CHOKE_POINT")

\* The probability a feed record carries (0 when it carries none).
FeedProbability(pred) ==
  IF "GHOST_PROBABILITY" \in DOMAIN pred THEN pred.GHOST_PROBABILITY ELSE 0

\* Speed strictly above 2.0 and engine load strictly below 30.0, both present.
RuleQualifies(equip) ==
  /\ "speed_mph" \in DOMAIN equip
  /\ equip.speed_mph > 20
  /\ "engine_load_pct" \in DOMAIN equip
  /\ equip.engine_load_pct < 300

\* C4: with a non-empty ghost-cycle prediction feed no ghost-cycle alert
\* comes from the rule-based test, and when every feed record is below the
\* threshold the pass yields no ghost-cycle alert at all, whatever the
\* equipment snapshot holds.
C4_NonEmptyFeedNeverFallsBack ==
  (w_pc = "returned" /\ Len(ml_ghost_cycles) > 0) =>
    /\ \A i \in 1..Len(result.alerts) :
         result.alerts[i].type = "GHOST_CYCLE"
           => result.alerts[i].model # "RULE_BASED_FALLBACK"
    /\ (\A i \in 1..Len(ml_ghost_cycles) :
          FeedProbability(ml_ghost_cycles[i]) < thresholds.ghost_cycle_probability)
         => /\ GhostAlertsOf(result.alerts) = <<>>
            /\ result.ghost_cycles = <<>>

\* A pass whose feed is non-empty and wholly below the threshold while the
\* snapshot holds a record the rule test accepts.
C4_Witness ==
  /\ w_pc = "returned"
  /\ Len(ml_ghost_cycles) > 0
  /\ \A i \in 1..Len(ml_ghost_cycles) :
       FeedProbability(ml_ghost_cycles[i]) < thresholds.ghost_cycle_probability
  /\ \E i \in 1..Len(equipment_data) : RuleQualifies(equipment_data[i])
  /\ GhostAlertsOf(result.alerts) = <<>>

\* C5: with an empty ghost-cycle feed the ghost-cycle alerts are, in order,
\* one per equipment record with speed > 2.0 and engine load < 30.0, each
\* with confidence absent, severity WARNING and the rule-based source.
C5_EmptyFeedRuleBasedAlerts ==
  (w_pc = "returned" /\ ml_ghost_cycles = <<>>) =>
    LET ghost == GhostAlertsOf(result.alerts)
        hits == SelectSeq(equipment_data, RuleQualifies)
    IN  /\ Len(ghost) = Len(hits)
        /\ result.ghost_cycles = hits
        /\ \A i \in 1..Len(ghost) :
             /\ ghost[i].confidence = None
             /\ ghost[i].severity = "WARNING"
             /\ ghost[i].model = "RULE_BASED_FALLBACK"
             /\ ghost[i].id = hits[i].equipment_id

\* The record with speed 3.0 and load 20 beside one at the speed limit:
\* exactly one alert.
C5_Witness ==
  /\ w_pc = "returned"
  /\ ml_ghost_cycles = <<>>
  /\ equipment_data =
       << [equipment_id |-> "EQ-1", speed_mph |-> 30, engine_load_pct |-> 200],
          [equipment_id |-> "EQ-1", speed_mph |-> 20, engine_load_pct |-> 200] >>
  /\ Len(GhostAlertsOf(result.alerts)) = 1

NamesGhost(row) == "MODEL_NAME" \in DOMAIN row /\ InName("GHOST", row.MODEL_NAME)
NamesChoke(row) == "MODEL_NAME" \in DOMAIN row /\ InName("CHOKE", row.MODEL_NAME)

\* The value of the last row of rows that Names accepts (default when no
\* row does, or when that row carries no value).
LastValue(rows, Names(_), default) ==
  LET idx == {i \in 1..Len(rows) : Names(rows[i])} IN
  IF idx = {} THEN default
  ELSE LET last == CHOOSE i \in idx : \A j \in idx : j <= i IN
       IF "OPTIMAL_THRESHOLD" \in DOMAIN rows[last]
         THEN rows[last].OPTIMAL_THRESHOLD ELSE default

\* C6: _get_optimal_thresholds returns ghost 0.50 and choke 0.60 when the
\* optimizer raises or returns nothing; otherwise each probability threshold
\* is the optimizer's value for the model it names (the last row naming it)
\* and a threshold no row names keeps its default.
C6_ThresholdsFromOptimizer ==
  (w_pc = "thresholds") =>
    /\ (optimal.raises \/ optimal.rows = <<>>) =>
         /\ thresholds.ghost_cycle_probability = 50
         /\ thresholds.choke_point_probability = 60
    /\ ~optimal.raises =>
         /\ thresholds.ghost_cycle_probability = LastValue(optimal.rows, NamesGhost, 50)
         /\ thresholds.choke_point_probability = LastValue(optimal.rows, NamesChoke, 60)
    /\ thresholds.ghost_cycle_speed_min = 20
    /\ thresholds.ghost_cycle_load_max = 300

\* The fixture {GHOST model -> 0.42}: ghost 0.42, choke still 0.60.
C6_Witness ==
  /\ w_pc = "thresholds"
  /\ optimal = [raises |-> FALSE,
                rows |-> << [MODEL_NAME |-> <<"GHOST", "CYCLE", "DETECTOR">>,
                             OPTIMAL_THRESHOLD |-> 42] >>]
  /\ thresholds.ghost_cycle_probability = 42
  /\ thresholds.choke_point_probability = 60

\* C7: an alert has a confidence if and only if its source model is one of
\* the probabilistic models; RULE_BASED_FALLBACK alerts have none.
C7_ConfidenceIffProbabilisticModel ==
  \A i \in 1..Len(result.alerts) :
    LET a == result.alerts[i] IN
    /\ (a.confidence # None)
         <=> (a.model \in {"GHOST_CYCLE_DETECTOR", "CHOKE_POINT_PREDICTOR"})
    /\ (a.model = "RULE_BASED_FALLBACK") => (a.confidence = None)

\* A pass that produced an alert of a probabilistic model and a rule-based
\* ghost-cycle alert.
C7_Witness ==
  /\ w_pc = "returned"
  /\ \E i \in 1..Len(result.alerts) :
       result.alerts[i].model = "CHOKE_POINT_PREDICTOR"
  /\ \E i \in 1..Len(result.alerts) :
       /\ result.alerts[i].model = "RULE_BASED_FALLBACK"
       /\ result.alerts[i].type = "GHOST_CYCLE"

\* C8: the probability thresholds a detection pass uses are in [0,1].
C8_ThresholdsInUnitInterval ==
  (w_pc = "returned") =>
    /\ result.thresholds_used.ghost_cycle_probability \in 0..100
    /\ result.thresholds_used.choke_point_probability \in 0..100

\* C9: with a non-empty feed the ghost-cycle alerts are, in order, one per
\* feed record whose probability is >= the resolved threshold, WARNING below
\* 0.7 and CRITICAL otherwise, with the probability as confidence.
C9_MlGhostAlerts ==
  (w_pc = "returned" /\ Len(ml_ghost_cycles) > 0) =>
    LET thr == result.thresholds_used.ghost_cycle_probability
        ghost == GhostAlertsOf(result.alerts)
        kept == SelectSeq(ml_ghost_cycles, LAMBDA r : FeedProbability(r) >= thr)
    IN  /\ Len(ghost) = Len(kept)
        /\ result.ghost_cycles = kept
        /\ \A i \in 1..Len(ghost) :
             /\ ghost[i].confidence = Some(FeedProbability(kept[i]))
             /\ ghost[i].severity =
                  (IF FeedProbability(kept[i]) < 70 THEN "WARNING" ELSE "CRITICAL")
             /\ ghost[i].model = "GHOST_CYCLE_DETECTOR"

\* One feed record at 0.81 under the default threshold: one CRITICAL alert
\* with confidence 0.81.
C9_Witness ==
  /\ w_pc = "returned"
  /\ ml_ghost_cycles = << [EQUIPMENT_ID |-> "EQ-1", GHOST_PROBABILITY |-> 81] >>
  /\ result.thresholds_used.ghost_cycle_probability = 50
  /\ Len(GhostAlertsOf(result.alerts)) = 1
  /\ GhostAlertsOf(result.alerts)[1].severity = "CRITICAL"
  /\ GhostAlertsOf(result.alerts)[1].confidence = Some(81)

\* C10: every alert has kind GHOST_CYCLE or CHOKE_POINT and severity
\* WARNING, ALERT or CRITICAL.
C10_AlertKindAndSeverity ==
  \A i \in 1..Len(result.alerts) :
    /\ result.alerts[i].type \in {"GHOST_CYCLE", "CHOKE_POINT"}
    /\ result.alerts[i].severity \in {"WARNING", "ALERT", "CRITICAL"}

\* Average speed strictly below 5.0 and strictly more than 10 machines, both
\* present.
ZoneQualifies(zone) ==
  /\ "avg_speed" \in DOMAIN zone
  /\ zone.avg_speed < 50
  /\ "equipment_count" \in DOMAIN zone
  /\ zone.equipment_count > 10

\* C11: a pass in which a prediction-feed or threshold fetch raised, or
\* found no backend service, still returns a result: the failed feed is
\* empty, the rule-based test has run on the snapshot supplied (one alert
\* per qualifying record), and failed thresholds are the defaults.
C11_FetchFailureFallsBack ==
  (w_pc = "returned") =>
    /\ result.status \in {"NORMAL", "ALERT", "CRITICAL"}
    /\ (fetches.thresholds # "ok") => result.thresholds_used = default_thresholds
    /\ (fetches.ghost # "ok") =>
         /\ ml_ghost_cycles = <<>>
         /\ result.ghost_cycles = SelectSeq(equipment_data, RuleQualifies)
         /\ Len(GhostAlertsOf(result.alerts)) = Len(result.ghost_cycles)
         /\ \A i \in 1..Len(GhostAlertsOf(result.alerts)) :
              GhostAlertsOf(result.alerts)[i].model = "RULE_BASED_FALLBACK"
    /\ (fetches.choke # "ok") =>
         /\ ml_choke_points = <<>>
         /\ result.choke_points = SelectSeq(zone_metrics, ZoneQualifies)
         /\ Len(ChokeAlertsOf(result.alerts)) = Len(result.choke_points)
         /\ \A i \in 1..Len(ChokeAlertsOf(result.alerts)) :
              ChokeAlertsOf(result.alerts)[i].model = "RULE_BASED_FALLBACK"

\* A pass whose choke-point fetch raised while the ghost-cycle fetch
\* answered, with a congested zone in the snapshot: one rule-based
\* choke-point alert.
C11_Witness ==
  /\ w_pc = "returned"
  /\ fetches.choke = "raised"
  /\ fetches.ghost = "ok"
  /\ \E i \in 1..Len(zone_metrics) : ZoneQualifies(zone_metrics[i])
  /\ Len(ChokeAlertsOf(result.alerts)) = 1
  /\ ChokeAlertsOf(result.alerts)[1].model = "RULE_BASED_FALLBACK"


\* ======================================================== PARSER CLAIMS
\* The frame handed to _parse_sse_event has been parsed.
Parsed == p_pc = "returned"

\* C16: a frame whose event-type tag is not one the parser recognizes
\* yields no event, whatever its payload is: a JSON object, array, string
\* or number, or text that is not JSON (the done sentinel aside).
C16_UnknownTagYieldsNothing ==
  (Parsed /\ p_tag = Some("response.unknown") /\ p_payload # Some("[DONE]"))
    => p_event = None

\* The content of a text event is the empty string.
IsEmptyContent(c) ==
  \/ c.t = "str" /\ c.v = ""
  \/ c.t = "strof" /\ c.v.t = "str" /\ c.v.v = ""
  \/ c.t = "join" /\ \A i \in DOMAIN c.v : c.v[i].t = "str" /\ c.v[i].v = ""

\* C17: every text event the parser returns has non-empty content; a
\* text delta that is empty, given directly or assembled from nested
\* content parts, yields no event.
C17_TextEventsAreNonEmpty ==
  Parsed => \A e \in p_event : e.type = "text" => ~IsEmptyContent(e.content)

\* The frame is a protocol anomaly: its data payload is not valid JSON, or
\* it is a chart frame whose embedded chart string fails to parse.
ProtocolAnomaly ==
  /\ p_tag # None
  /\ \E payload \in p_payload :
       \/ payload # "[DONE]" /\ JsonLoadsToken(payload) = None
       \/ p_tag = Some("response.chart") /\ payload = "{\"chart_spec\":\"{oops\"}"

\* C20: a protocol-anomaly frame yields no event, for every event-type
\* tag.
C20_AnomalyYieldsNoEvent ==
  (Parsed /\ ProtocolAnomaly) => p_event = None


\* A JSON object whose nested content list holds an item with a SQL
\* string, an error or inline data.
CarriesSqlErrorOrData(d) ==
  /\ d.t = "dict"
  /\ "content" \in DOMAIN d.v
  /\ d.v["content"].t = "list"
  /\ \E i \in 1..Len(d.v["content"].v) :
       LET item == d.v["content"].v[i] IN
       /\ item.t = "dict"
       /\ "json" \in DOMAIN item.v
       /\ item.v["json"].t = "dict"
       /\ DOMAIN item.v["json"].v \cap {"sql", "error", "data"} # {}

\* C25: a tool-result frame whose payload is a JSON object yields a
\* tool_result event exactly when its nested content list carries a SQL
\* string, an error message or inline data, and no event otherwise.
C25_ToolResultIffFieldFound ==
  (Parsed /\ p_tag = Some("response.tool_result")) =>
    \A payload \in p_payload : \A d \in JsonLoadsToken(payload) :
      d.t = "dict" =>
        ((\E e \in p_event : e.type = "tool_result") <=> CarriesSqlErrorOrData(d))

\* ========================================================= QUERY CLAIMS
\* The failures that are token expiries: the message carries the code
\* 390114 or says, in any case, that the token expired.
ExpiryMessages ==
  { <<"390114">>, <<"Token", SP, "EXPIRED">>, <<"OAuth", SP, "token", SP, "expired">> }

\* The first attempt of the query failed with a token expiry.
FirstFailureIsExpiry == Len(q_errors) >= 1 /\ q_errors[1] \in ExpiryMessages

\* C19: on the SPCS path a finished execute_query reconnected once if its
\* first attempt failed with a token expiry and never otherwise; it ran
\* the query a second time exactly when that reconnect succeeded, and
\* never a third time; a failed retry is followed by no reconnect and
\* the empty list is returned, as after any failure that is not retried.
C19_OneReconnectOneRetry ==
  (q_pc = "returned" /\ is_spcs) =>
    /\ q_attempts <= 2
    /\ Len(q_reconnects) = (IF FirstFailureIsExpiry THEN 1 ELSE 0)
    /\ q_attempts = 2 <=> (FirstFailureIsExpiry /\ q_reconnects = << TRUE >>)
    /\ Len(q_errors) <= q_attempts
    /\ (q_attempts >= 1 /\ Len(q_errors) = q_attempts) => q_rows = << >>

\* An SPCS query whose first attempt failed with a token expiry, that
\* reconnected, was retried, failed again the same way and returned the
\* empty list after two attempts and one reconnect.
C19_Witness ==
  /\ q_pc = "returned"
  /\ is_spcs
  /\ q_attempts = 2
  /\ Len(q_errors) = 2
  /\ q_errors[1] \in ExpiryMessages
  /\ q_errors[2] \in ExpiryMessages
  /\ q_reconnects = << TRUE >>
  /\ q_rows = << >>

\* ================================================== WATCHDOG RESULT CLAIMS
\* Some alert of the pass has severity CRITICAL.
SomeCritical ==
  \E i \in 1..Len(result.alerts) : result.alerts[i].severity = "CRITICAL"

\* C21: the status a pass returns is CRITICAL exactly when some alert has
\* severity CRITICAL, ALERT exactly when there are alerts and none is
\* CRITICAL, and NORMAL exactly when there is no alert.
C21_StatusFromAlerts ==
  w_pc = "returned" =>
    /\ result.status = "CRITICAL" <=> SomeCritical
    /\ result.status = "ALERT" <=> (result.alerts # <<>> /\ ~SomeCritical)
    /\ result.status = "NORMAL" <=> result.alerts = <<>>

\* A pass whose first alert is a WARNING and whose status is CRITICAL
\* because a later choke-point alert carries that severity.
C21_Witness ==
  /\ w_pc = "returned"
  /\ Len(result.alerts) >= 2
  /\ result.alerts[1].severity = "WARNING"
  /\ result.alerts[Len(result.alerts)].type = "CHOKE_POINT"
  /\ result.alerts[Len(result.alerts)].severity = "CRITICAL"
  /\ result.status = "CRITICAL"

\* ===================================================== RUN AGENT CLAIMS
\* C28: run_agent leaves the caller's history list unchanged: after any
\* number of calls with the same list it holds the elements it held before
\* the calls, and each request sent holds that history followed by exactly
\* one new user message.
C28_HistoryUnchanged ==
  r_calls >= 1 =>
    /\ r_history = r_before
    /\ r_request =
         _format_messages_for_api(
           Append(r_before, [role |-> "user", content |-> r_message]))

\* C26: in every result of a pass the bookkeeping agrees with the alert
\* list: the GHOST_CYCLE alerts are as many as ghost_cycles holds and as
\* cost_impact.ghost_cycle_count says, the CHOKE_POINT alerts as many as
\* choke_points holds and as cost_impact.choke_point_count says, and the
\* two counts sum to the number of alerts.
C26_CountsAgreeWithAlerts ==
  w_pc = "returned" =>
    LET ghosts == Len(SelectSeq(result.alerts, LAMBDA a : a.type = "GHOST_CYCLE"))
        chokes == Len(SelectSeq(result.alerts, LAMBDA a : a.type = "CHOKE_POINT"))
    IN /\ ghosts = Len(result.ghost_cycles)
       /\ ghosts = result.cost_impact.ghost_cycle_count
       /\ chokes = Len(result.choke_points)
       /\ chokes = result.cost_impact.choke_point_count
       /\ ghosts + chokes = Len(result.alerts)

\* A pass with one ghost-cycle alert from the feed and one choke-point
\* alert from the rule-based test, each with its record listed and counted.
C26_Witness ==
  /\ w_pc = "returned"
  /\ Len(result.alerts) = 2
  /\ result.alerts[1].type = "GHOST_CYCLE"
  /\ result.alerts[1].model = "GHOST_CYCLE_DETECTOR"
  /\ result.alerts[2].type = "CHOKE_POINT"
  /\ result.alerts[2].model = "RULE_BASED_FALLBACK"
  /\ Len(result.ghost_cycles) = 1
  /\ Len(result.choke_points) = 1
  /\ result.cost_impact = [ghost_cycle_count |-> 1, choke_point_count |-> 1]

\* ================================================ CONCURRENT TURN CLAIMS
\* C24: of two process_message calls scheduled together with different
\* site overrides, each makes its specialist calls with the site of its
\* own override, in whichever order the loop runs them.
C24_EachTurnUsesItsOwnSite ==
  \A t \in Tasks :
    g_tasks[t].state = "done" => g_tasks[t].site_used \in {None, g_tasks[t].site_id}

\* Task 2 ran before task 1; both asked for the fleet status, each got it
\* for its own site, and the context keeps the site of the task run last.
C24_Witness ==
  /\ g_pc = "gathered"
  /\ g_order = <<2, 1>>
  /\ g_tasks[1].intent = "status"
  /\ g_tasks[2].intent = "status"
  /\ g_tasks[1].site_used = Some("BETA")
  /\ g_tasks[2].site_used = Some("GAMMA")
  /\ context_site = "BETA"

\* ================================================== QUERY RETRY CLAIMS
\* C29: when the first attempt of an SPCS query failed with a token expiry
\* and the reconnect succeeded, the retry runs on the connector connection
\* the reconnect established, whether the service holds a Snowpark session
\* or not.
C29_RetryOnNewConnection ==
  (is_spcs /\ FirstFailureIsExpiry /\ q_reconnects = << TRUE >> /\ Len(q_handles) = 2)
    => q_handles[2] = "new_connection"

====
